---- MODULE Spec2Model ----
(***************************************************************************)
(* State-machine model of the notification application: the polling        *)
(* service (app/services/polling.py), the notification service             *)
(* (app/services/notification.py) and the storage operations they use      *)
(* (app/db/database.py).                                                   *)
(*                                                                         *)
(* Text is modelled as a sequence of one-character strings, SQL NULL and   *)
(* Python None as the value NULL.  A table is a function from the keys of  *)
(* its rows to the rows; a JSON object is a function from the keys it      *)
(* holds to their values, so a missing key is a key outside its DOMAIN.    *)
(***************************************************************************)
EXTENDS Integers, Sequences, FiniteSets, TLC

\* ------------------------------------------------------------------ bounds

\* Rows the notifications table may hold before the model stops creating more.
MaxNotifications == 1

\* Poll ticks the scheduler starts before the model stops starting more.
MaxTicks == 2

\* The most subscriptions one delivery is handed.
MaxSubs == 11

\* The rate limiter of the model: rate_limit(calls=LimitCalls,
\* period=LimitPeriod), each caller calling at most MaxCalls times, callers
\* arriving up to time MaxTime.
LimitCalls == 2
LimitPeriod == 3
MaxCalls == 2
MaxTime == 4

\* The most calls made on the polling service's scheduler interface.
MaxOps == 4

\* The last day datetime('now') reaches, counted from the day the model starts.
MaxClock == 1

\* The longest post content, in characters.
MaxContentLen == 78

\* The notification ids the inbox specification lets AUTOINCREMENT reach.
MaxInbox == 3

\* ----------------------------------------------------------------- domains

Users == {"u1", "u2"}
Threads == {"t1", "t2"}
Endpoints == {"e1", "e2"}
NULL == "NULL"

Callers == {"k1", "k2"}

\* update_settings: the most keywords it accepts, and the shortest.
MAX_KEYWORDS == 20
MIN_KEYWORD_LENGTH == 3

\* Config.AUTH_TOKEN_TTL_DAYS, by default.
AUTH_TOKEN_TTL_DAYS == 30

\* Config.HTTP_MAX_RETRIES, the total of the session's Retry strategy.
HTTP_MAX_RETRIES == 3

\* NotificationService.MAX_CONTENT_LENGTH
MAX_CONTENT_LENGTH == 75

Fire == <<"F", "i", "r", "e">>
Cafe == <<"C", "a", "f", "e">>
Body == <<"o", "k">>
KwFir == <<"F", "I", "R">>
UrgentPrefix == <<"URGENT: ">>

\* ------------------------------------------------------------ text helpers

\* str.lower() on the characters the model uses.
LowerChar(c) ==
    CASE c = "F" -> "f"
      [] c = "I" -> "i"
      [] c = "R" -> "r"
      [] c = "C" -> "c"
      [] OTHER -> c

Lower(s) == [i \in 1..Len(s) |-> LowerChar(s[i])]

\* Python's `kw in text` on strings: kw occurs as a contiguous substring.
Contains(text, kw) ==
    \E i \in 0..(Len(text) - Len(kw)) :
        \A j \in 1..Len(kw) : text[i + j] = kw[j]

\* A message cut at the maximum length, the marker added after it.
TruncateAfterLimit(content) ==
    IF Len(content) > MAX_CONTENT_LENGTH
    THEN SubSeq(content, 1, MAX_CONTENT_LENGTH) \o <<".", ".", ".">>
    ELSE content

\* content[: MAX_CONTENT_LENGTH - 3] + "..." when the content is too long.
Truncate(content) ==
    IF Len(content) > MAX_CONTENT_LENGTH
    THEN SubSeq(content, 1, MAX_CONTENT_LENGTH - 3) \o <<".", ".", ".">>
    ELSE content

\* dict.get(key, default).
Get(d, k, dflt) == IF k \in DOMAIN d THEN d[k] ELSE dflt

\* The JSON object {}.
EmptyObj == [k \in {} |-> TRUE]

\* A settings blob that json.loads rejects.
MalformedBlob == [malformed |-> TRUE]

IsMalformed(blob) == "malformed" \in DOMAIN blob

\* ------------------------------------------------------------------- state

VARIABLES
    posts,                  \* posts table: id -> row
    notifications,          \* notifications table: id -> row
    notification_seq,       \* AUTOINCREMENT counter of the notifications table
    user_notifications,     \* user_notifications table: set of rows
    push_subscriptions,     \* push_subscriptions table: endpoint -> row
    notification_settings,  \* notification_settings table: user_key -> blob
    notification_keywords,  \* notification_keywords table: user_key -> keywords
    keywords,               \* keywords table: the global vocabulary
    attempts,               \* webpush() calls: of the last request, or of the poll ticks
    returned,               \* what the last operation returned
    _is_polling,            \* PollingService._is_polling
    _last_error,            \* PollingService._last_error
    _last_poll_time,        \* PollingService._last_poll_time: the tick that set it
    ticks,                  \* poll ticks started so far
    pc,                     \* where each thread is in _poll_job / _poll_once
    parsed,                 \* _poll_once's local posts, per thread
    new_posts,              \* _poll_once's result, per thread
    raised,                 \* the exception a thread's _poll_once is leaving with
    tick_base,              \* notification_seq when the thread's tick started
    last_ingested           \* the parser output _process_posts handled last

dbvars == <<posts, notifications, notification_seq, user_notifications,
            push_subscriptions, notification_settings, notification_keywords,
            keywords>>

pollvars == <<_is_polling, _last_error, _last_poll_time, ticks, pc, parsed,
              new_posts, raised, tick_base, last_ingested>>

\* The poll tick's way out and its HTTP session.
VARIABLES
    escaped,                \* an exception has left _poll_job
    resends                 \* requests the session re-sent in the thread's get_content(),
                            \* kept until the thread's next tick when the call failed

tickvars == <<escaped, resends>>

\* One _deliver_notification call and its ThreadPoolExecutor.
VARIABLES
    pool_state,             \* "idle", "open", "completed" or "raised"
    pool_n,                 \* len(filtered_subscriptions)
    max_workers,            \* the executor's max_workers
    started,                \* work items a worker has taken, in submission order
    running,                \* work items a worker is executing
    failures                \* the ways in which finished work items have failed

poolvars == <<pool_state, pool_n, max_workers, started, running, failures>>

\* The closure of one rate_limit decorator and its callers.
VARIABLES
    now,                    \* time.time()
    last_reset,             \* the closure's last_reset
    calls_made,             \* the closure's calls_made
    lock,                   \* the caller holding the closure's lock, or NULL
    wpc,                    \* where each caller is in wrapper
    wake_at,                \* when the caller's time.sleep() returns
    called,                 \* times each caller has called wrapper
    invoked,                \* times func has been called for each caller
    permitted               \* the times at which calls left the locked section, in order

limvars == <<now, last_reset, calls_made, lock, wpc, wake_at, called, invoked, permitted>>

\* The BackgroundScheduler of the polling service.
VARIABLES
    scheduler_running,      \* scheduler.running
    jobs,                   \* the job store: the registered jobs
    job_seq,                \* jobs registered so far (ids of the jobs without id)
    forced,                 \* the poll job's next_run_time was set to now
    history                 \* the calls made on the service so far

schedvars == <<scheduler_running, jobs, job_seq, forced, history>>

\* Expiry, sessions, the shared connection and a fan-out under way.
VARIABLES
    clock,                  \* datetime('now')
    expires_at,             \* notifications.expires_at: id -> time
    read_at,                \* user_notifications.read_at: <<user_id, notification_id>> -> time
    auth_tokens,            \* auth_tokens table: session_id -> last_accessed
    in_transaction,         \* the shared connection has a transaction open
    cpn                     \* the create_post_notification call under way

latevars == <<clock, expires_at, read_at, auth_tokens, in_transaction, cpn>>

\* No create_post_notification call is under way.
NoCall == [stage |-> "idle"]

auxvars == <<poolvars, limvars, schedvars, latevars>>

vars == <<dbvars, attempts, returned, pollvars, tickvars, auxvars>>

\* The storage and the transport log as one value, for operators that thread
\* them through a sequence of calls.
DB ==
    [posts |-> posts,
     notifications |-> notifications,
     notification_seq |-> notification_seq,
     user_notifications |-> user_notifications,
     push_subscriptions |-> push_subscriptions,
     notification_settings |-> notification_settings,
     notification_keywords |-> notification_keywords,
     keywords |-> keywords,
     attempts |-> attempts]

Store(db) ==
    /\ posts' = db.posts
    /\ notifications' = db.notifications
    /\ notification_seq' = db.notification_seq
    /\ user_notifications' = db.user_notifications
    /\ push_subscriptions' = db.push_subscriptions
    /\ notification_settings' = db.notification_settings
    /\ notification_keywords' = db.notification_keywords
    /\ keywords' = db.keywords
    /\ attempts' = db.attempts

\* ----------------------------------------------------------------- storage

\* hashlib.md5(endpoint).hexdigest()[:16]: one fixed, non-empty value per endpoint.
DeviceIdOf(endpoint) ==
    CASE endpoint = "e1" -> "md5-e1"
      [] endpoint = "e2" -> "md5-e2"
      [] OTHER -> "md5-other"

\* DatabaseManager.remove_push_subscription: the DELETE's WHERE clause decides.
RemovePushSubscription(subs, endpoint, user_key, device_id) ==
    LET dev == IF device_id = NULL THEN DeviceIdOf(endpoint) ELSE device_id
        deleted ==
            IF user_key # NULL /\ dev # ""
            THEN {e \in DOMAIN subs : /\ e = endpoint
                                      /\ subs[e].user_key = user_key
                                      /\ subs[e].device_id = dev}
            ELSE IF dev # ""
            THEN {e \in DOMAIN subs : e = endpoint /\ subs[e].device_id = dev}
            ELSE {e \in DOMAIN subs : e = endpoint}
    IN [e \in DOMAIN subs \ deleted |-> subs[e]]

\* DatabaseManager.get_push_subscriptions_for_users: the endpoints of the rows
\* returned (each row is returned with its user_key and device_id).
GetPushSubscriptionsForUsers(subs, user_keys, urgent) ==
    IF user_keys = {}
    THEN IF urgent
         THEN {e \in DOMAIN subs : subs[e].is_active /\ subs[e].user_key # NULL}
         ELSE {}
    ELSE {e \in DOMAIN subs : subs[e].user_key \in user_keys /\ subs[e].is_active}

\* The columns _upsert_post writes for a Post (created_at and updated_at are
\* timestamps the model does not hold).
PostRow(post) ==
    [title |-> post.title, content |-> post.content, location |-> post.location,
     is_urgent |-> post.is_urgent, likes |-> post.likes, has_image |-> post.has_image]

\* DatabaseManager._upsert_post: INSERT OR REPLACE on the primary key id.
UpsertPost(tbl, post) ==
    [id \in DOMAIN tbl \cup {post.id} |-> IF id = post.id THEN PostRow(post) ELSE tbl[id]]

\* A skip test that also compares the engagement fields.
ExistsIdentical(tbl, post) ==
    /\ post.id \in DOMAIN tbl
    /\ tbl[post.id] = PostRow(post)

\* The skip test of add_posts_bulk: the row exists with this title and content.
ExistsUnchanged(tbl, post) ==
    /\ post.id \in DOMAIN tbl
    /\ tbl[post.id].title = post.title
    /\ tbl[post.id].content = post.content

\* The loop of add_posts_bulk from candidate i on.
RECURSIVE AddPostsBulkFrom(_, _, _, _)
AddPostsBulkFrom(tbl, batch, i, updated) ==
    IF i > Len(batch)
    THEN [posts |-> tbl, updated |-> updated]
    ELSE IF ExistsUnchanged(tbl, batch[i])
    THEN AddPostsBulkFrom(tbl, batch, i + 1, updated)
    ELSE AddPostsBulkFrom(UpsertPost(tbl, batch[i]), batch, i + 1,
                          Append(updated, batch[i]))

\* An ingestion that skips a candidate whenever its id is stored.
RECURSIVE AddPostsBulkById(_, _)
AddPostsBulkById(tbl, batch) ==
    IF batch = <<>>
    THEN [posts |-> tbl, updated |-> <<>>]
    ELSE IF Head(batch).id \in DOMAIN tbl
    THEN AddPostsBulkById(tbl, Tail(batch))
    ELSE LET r == AddPostsBulkById(UpsertPost(tbl, Head(batch)), Tail(batch))
         IN [posts |-> r.posts, updated |-> <<Head(batch)>> \o r.updated]

\* DatabaseManager.add_posts_bulk: the table afterwards and the list returned.
AddPostsBulk(tbl, batch) == AddPostsBulkFrom(tbl, batch, 1, <<>>)

\* A bulk insert that names the notification stored before the new one.
AddUserNotificationsForPrevious(rows, notification_id, user_ids) ==
    rows \cup {[user_id |-> u, notification_id |-> notification_id - 1, is_read |-> FALSE] :
                  u \in user_ids}

\* DatabaseManager.add_user_notifications_bulk
AddUserNotificationsBulk(rows, notification_id, user_ids) ==
    rows \cup {[user_id |-> u, notification_id |-> notification_id, is_read |-> FALSE] :
                  u \in user_ids}

\* ------------------------------------------------------- fan-out decisions

\* A location filter that lets every user with stored settings through.
FilterByLocationNone(post, all_settings) == DOMAIN all_settings

\* NotificationService._filter_by_location (json.loads has succeeded for every
\* blob when this result is used).
FilterByLocation(post, all_settings) ==
    {u \in DOMAIN all_settings :
        LET location_filter == Get(all_settings[u], "locationFilter", EmptyObj)
            user_locations == Get(location_filter, "locations", {})
        IN \/ ~Get(location_filter, "enabled", FALSE)
           \/ user_locations = {}
           \/ post.location = NULL \/ post.location = ""
           \/ post.location \in user_locations}

\* NotificationService._filter_by_keywords
FilterByKeywords(post, location_filtered_users, all_settings, user_keywords) ==
    {u \in location_filtered_users :
        LET keyword_filter == Get(all_settings[u], "keywordFilter", [enabled |-> FALSE])
            content_lower == Lower(post.title \o <<" ">> \o post.content)
        IN \/ ~Get(keyword_filter, "enabled", FALSE)
           \/ user_keywords[u] = {}
           \/ \E kw \in user_keywords[u] : Contains(content_lower, Lower(kw))}

\* _filter_by_location evaluates post.location in user_locations for a user
\* whose filter is enabled, whose locations value is true and whose post has a
\* location: a locations value that is a number raises TypeError there.  Such
\* a value is stored under the key locations_number.
LocationTestRaises(post, all_settings) ==
    \E u \in DOMAIN all_settings :
       /\ ~IsMalformed(all_settings[u])
       /\ LET location_filter == Get(all_settings[u], "locationFilter", EmptyObj)
          IN /\ Get(location_filter, "enabled", FALSE)
             /\ "locations_number" \in DOMAIN location_filter
             /\ post.location # NULL /\ post.location # ""

\* NotificationService._get_filtered_users_for_post: a blob json.loads rejects
\* raises inside the try block, and so does the location test of a locations
\* value that is no container; the handler returns the empty set.
GetFilteredUsersForPost(db, post) ==
    LET all_settings == db.notification_settings
    IN IF \/ \E u \in DOMAIN all_settings : IsMalformed(all_settings[u])
          \/ LocationTestRaises(post, all_settings)
       THEN {}
       ELSE LET location_filtered_users == FilterByLocation(post, all_settings)
            IN IF location_filtered_users = {}
               THEN {}
               ELSE FilterByKeywords(post, location_filtered_users, all_settings,
                                     db.notification_keywords)

\* ---------------------------------------------------------------- delivery

\* Status codes send_push_notification treats as permanent failures.
PermanentCodes == {400, 404, 410, 413}

\* What one webpush() call can do: succeed, or raise WebPushException whose
\* response is None (status 0) or a response object.  The truth value of a
\* response object is decided by its class, which is not part of this
\* repository (requests.Response is false for every status >= 400).
OkOutcome == [kind |-> "ok", status |-> 201, truthy |-> TRUE]
Outcomes ==
    {OkOutcome}
    \cup {[kind |-> "WebPushException", status |-> 0, truthy |-> FALSE]}
    \cup [kind : {"WebPushException"}, status : {410, 500}, truthy : {TRUE}]
    \cup [kind : {"WebPushException"}, status : {410}, truthy : {FALSE}]

\* NotificationService.send_push_notification on a row read from storage: the
\* row has endpoint, auth and p256dh, so _validate_subscription accepts it.
SendPushNotification(subs, endpoint, outcome) ==
    IF outcome.kind = "ok"
    THEN subs    \* only the last_used timestamp is refreshed
    ELSE IF outcome.truthy /\ outcome.status \in PermanentCodes
    THEN RemovePushSubscription(subs, endpoint, NULL, NULL)
    ELSE subs

\* An opt-out test that lets every owner through.
PushEnabledAlways(all_settings, user_key) == TRUE

\* The opt-out test of _deliver_notification for one user_key.
PushEnabled(all_settings, user_key) ==
    LET user_settings ==
            IF user_key \in DOMAIN all_settings /\ ~IsMalformed(all_settings[user_key])
            THEN all_settings[user_key]
            ELSE EmptyObj
    IN Get(user_settings, "pushNotifications", TRUE)

\* A delivery that submits every active subscription.
EveryActiveSubscription(db, all_users, target_users) ==
    {e \in DOMAIN db.push_subscriptions : db.push_subscriptions[e].is_active}

\* The subscriptions _deliver_notification submits to the pool.
FilteredSubscriptions(db, all_users, target_users) ==
    LET subs == db.push_subscriptions
        subscriptions ==
            IF all_users
            THEN GetPushSubscriptionsForUsers(subs, {}, TRUE)
            ELSE GetPushSubscriptionsForUsers(subs, target_users, FALSE)
    IN {e \in subscriptions :
           /\ subs[e].user_key # NULL
           /\ PushEnabled(db.notification_settings, subs[e].user_key)}

\* The pool's tasks, one send_push_notification per submitted subscription.
RECURSIVE SendAll(_, _, _)
SendAll(subs, todo, out) ==
    IF todo = {}
    THEN subs
    ELSE LET e == CHOOSE x \in todo : TRUE
         IN SendAll(SendPushNotification(subs, e, out[e]), todo \ {e}, out)

\* NotificationService._deliver_notification; all_users is target_users = None.
DeliverNotification(db, notification, all_users, target_users, out) ==
    LET filtered_subscriptions == FilteredSubscriptions(db, all_users, target_users)
    IN [db EXCEPT
          !.push_subscriptions = SendAll(@, filtered_subscriptions, out),
          !.attempts = @ \cup {[endpoint |-> e,
                                user_key |-> db.push_subscriptions[e].user_key,
                                notification_id |-> notification.id,
                                post_id |-> notification.post_id,
                                outcome |-> out[e]] :
                                  e \in filtered_subscriptions}]

\* ThreadPoolExecutor(max_workers=min(10, 0)) raises ValueError: what
\* _deliver_notification does when no subscription is left to submit.
DeliverRaises(db, all_users, target_users) ==
    FilteredSubscriptions(db, all_users, target_users) = {}

\* The Notification create_post_notification returns from its except clause.
FallbackNotification(post) ==
    [post_id |-> post.id, title |-> <<"New Post Notification">>,
     message |-> <<"Content not available">>, is_urgent |-> FALSE]

\* --------------------------------------------------- notification service

\* The Post object of a stored row.
PostOf(db, id) == [id |-> id] @@ db.posts[id]

\* The Notification built from a post, as add_notification stores it.
NotificationRow(post, notification_id) ==
    [id |-> notification_id,
     post_id |-> post.id,
     title |-> IF post.is_urgent THEN UrgentPrefix \o post.title ELSE post.title,
     message |-> Truncate(post.content),
     is_urgent |-> post.is_urgent]

\* DatabaseManager.add_notification: the row gets the next AUTOINCREMENT id.
AddNotification(db, post) ==
    LET notification_id == db.notification_seq + 1
    IN [db EXCEPT
          !.notification_seq = notification_id,
          !.notifications = [i \in DOMAIN @ \cup {notification_id} |->
                                IF i = notification_id
                                THEN NotificationRow(post, notification_id)
                                ELSE @[i]]]

\* The owners of active subscriptions only.
SubscribedUserKeys(db) ==
    LET subs == db.push_subscriptions
    IN {subs[e].user_key : e \in GetPushSubscriptionsForUsers(subs, {}, TRUE)}

\* The users an urgent notification is recorded for.
AllUserKeysCombined(db) ==
    LET subs == db.push_subscriptions
        all_subscriptions == GetPushSubscriptionsForUsers(subs, {}, TRUE)
    IN {subs[e].user_key : e \in all_subscriptions} \cup DOMAIN db.notification_settings

\* A fan-out that records every post for every known user and delivers nothing.
CreatePostNotificationForAll(db, post, out) ==
    LET with_row == AddNotification(db, post)
        notification_id == with_row.notification_seq
    IN [db |-> [with_row EXCEPT !.user_notifications =
                   AddUserNotificationsBulk(@, notification_id, Users)],
        ret |-> [kind |-> "notification",
                 notification |-> NotificationRow(post, notification_id)]]

\* NotificationService.create_post_notification for a post whose row is stored,
\* with storage answering; out gives each webpush() call's outcome.  The result
\* holds the storage afterwards and the value returned: the Notification, or
\* the fallback of the except clause when _deliver_notification raised.
CreatePostNotification(db, post, out) ==
    LET with_row == AddNotification(db, post)
        notification_id == with_row.notification_seq
        notification == NotificationRow(post, notification_id)
        ret == [kind |-> "notification", notification |-> notification]
        fallback == [kind |-> "fallback", notification |-> FallbackNotification(post)]
    IN IF post.is_urgent
       THEN LET with_users ==
                    [with_row EXCEPT !.user_notifications =
                        AddUserNotificationsBulk(@, notification_id,
                                                 AllUserKeysCombined(db))]
            IN [db |-> DeliverNotification(with_users, notification, TRUE, {}, out),
                ret |-> IF DeliverRaises(with_users, TRUE, {}) THEN fallback ELSE ret]
       ELSE LET target_users == GetFilteredUsersForPost(db, post)
            IN IF target_users = {}
               THEN [db |-> with_row, ret |-> ret]
               ELSE LET with_users ==
                            [with_row EXCEPT !.user_notifications =
                                AddUserNotificationsBulk(@, notification_id,
                                                         target_users)]
                    IN [db |-> DeliverNotification(with_users, notification,
                                                   FALSE, target_users, out),
                        ret |-> IF DeliverRaises(with_users, FALSE, target_users)
                                THEN fallback ELSE ret]

\* The Notification create_test_notification builds; it is never stored.
TestNotification ==
    [id |-> 0, post_id |-> "test", title |-> <<"Test Notification">>,
     message |-> <<"This is a test notification">>, is_urgent |-> FALSE]

\* NotificationService.create_test_notification
CreateTestNotification(db, out) == DeliverNotification(db, TestNotification, TRUE, {}, out)

\* NotificationService.create_bulk_notification: the storage afterwards.
RECURSIVE CreateBulkNotificationFrom(_, _, _, _)
CreateBulkNotificationFrom(db, post_list, i, out) ==
    IF i > Len(post_list)
    THEN db
    ELSE CreateBulkNotificationFrom(CreatePostNotification(db, post_list[i], out).db,
                                    post_list, i + 1, out)

CreateBulkNotification(db, post_list, out) ==
    CreateBulkNotificationFrom(db, post_list, 1, out)

\* --------------------------------------------------------- polling service

\* The loop of _process_posts over the posts add_posts_bulk returned: a
\* notification is created for each (every Post has an id).
RECURSIVE NotifyAddedFrom(_, _, _, _)
NotifyAddedFrom(db, added, i, out) ==
    IF i > Len(added)
    THEN db
    ELSE NotifyAddedFrom(CreatePostNotification(db, added[i], out).db,
                         added, i + 1, out)

\* PollingService._process_posts with a notifier configured: the storage
\* afterwards and the list returned.
ProcessPosts(db, batch, out) ==
    LET r == AddPostsBulk(db.posts, batch)
    IN [db |-> NotifyAddedFrom([db EXCEPT !.posts = r.posts], r.updated, 1, out),
        new_posts |-> r.updated]

\* ------------------------------------------------------- stored state menus

\* Rows the push_subscriptions table of an existing database file can hold: the
\* device_id column was added by _ensure_column, so older rows hold NULL in it.
\* The first endpoint may belong to either user or to nobody, the second is the
\* second user's.
StoredSubscriptionRows(endpoint) ==
    [user_key : IF endpoint = "e1" THEN Users \cup {NULL} ELSE {"u2"},
     device_id : {DeviceIdOf(endpoint), NULL},
     is_active : {TRUE}]

StoredSubscriptionTables ==
    UNION {{tbl \in [S -> UNION {StoredSubscriptionRows(e) : e \in S}] :
               \A e \in S : tbl[e] \in StoredSubscriptionRows(e)} :
           S \in SUBSET Endpoints}

SettingsOptOut ==
    [pushNotifications |-> FALSE,
     locationFilter |-> [enabled |-> FALSE, locations |-> {}],
     keywordFilter |-> [enabled |-> FALSE]]

SettingsLocA ==
    [pushNotifications |-> TRUE,
     locationFilter |-> [enabled |-> TRUE, locations |-> {"A"}],
     keywordFilter |-> [enabled |-> FALSE]]

SettingsKeyword ==
    [pushNotifications |-> TRUE,
     locationFilter |-> [enabled |-> FALSE, locations |-> {"B"}],
     keywordFilter |-> [enabled |-> TRUE]]

SettingsLocEmpty ==
    [pushNotifications |-> TRUE,
     locationFilter |-> [enabled |-> TRUE, locations |-> {}],
     keywordFilter |-> [enabled |-> TRUE]]

\* What update_settings accepts: the settings object and its keywords list.
ValidSettings ==
    {[settings |-> SettingsOptOut, keywords |-> {}],
     [settings |-> SettingsLocA, keywords |-> {}],
     [settings |-> SettingsKeyword, keywords |-> {KwFir}],
     [settings |-> SettingsLocEmpty, keywords |-> {}]}

\* What an existing database file can hold for a user: no row or a row written
\* by update_settings and, for the first user, an older row without the newer
\* keys or a damaged blob.
StoredProfiles(u) ==
    {[stored |-> FALSE, settings |-> EmptyObj, keywords |-> {}]}
    \cup {[stored |-> TRUE, settings |-> v.settings, keywords |-> v.keywords] :
             v \in ValidSettings}
    \cup IF u = "u1"
         THEN {[stored |-> TRUE, settings |-> EmptyObj, keywords |-> {}],
               [stored |-> TRUE, settings |-> MalformedBlob, keywords |-> {}]}
         ELSE {}

\* Posts of the stored table the fan-out operations are called with.
FanoutPosts ==
    [c1 |-> [title |-> Fire, content |-> Body, location |-> "B",
             is_urgent |-> TRUE, likes |-> 0, has_image |-> FALSE],
     c2 |-> [title |-> Fire, content |-> Body, location |-> "B",
             is_urgent |-> FALSE, likes |-> 0, has_image |-> FALSE],
     c3 |-> [title |-> Cafe, content |-> Body, location |-> "A",
             is_urgent |-> FALSE, likes |-> 0, has_image |-> FALSE]]

\* -------------------------------------------------------------- operations

\* The storage as an operation finds it: the transport log starts empty.
Fresh == [DB EXCEPT !.attempts = {}]

\* The subscriptions create_post_notification would submit for a post.
SubmittedFor(db, post) ==
    IF post.is_urgent
    THEN FilteredSubscriptions(db, TRUE, {})
    ELSE FilteredSubscriptions(db, FALSE, GetFilteredUsersForPost(db, post))

\* An outcome for each webpush() call an operation can make.
OutcomeMaps(submitted) == [submitted -> Outcomes]

\* create_post_notification called with a stored post.
CreatePostNotificationCall(id, out) ==
    /\ id \in DOMAIN posts
    /\ notification_seq < MaxNotifications
    /\ LET r == CreatePostNotification(Fresh, PostOf(DB, id), out)
       IN /\ Store(r.db)
          /\ returned' = [op |-> "create_post_notification", post_id |-> id,
                          value |-> r.ret]
    /\ UNCHANGED <<pollvars, tickvars, auxvars>>

\* create_test_notification (GET /notify): None when the delivery raised.
CreateTestNotificationCall(out) ==
    /\ Store(CreateTestNotification(Fresh, out))
    /\ returned' = [op |-> "create_test_notification", post_id |-> "test",
                    value |-> IF DeliverRaises(Fresh, TRUE, {})
                              THEN [kind |-> "none"]
                              ELSE [kind |-> "notification",
                                    notification |-> TestNotification]]
    /\ UNCHANGED <<pollvars, tickvars, auxvars>>

\* ---------------------------------------------------------- the poll tick

\* Posts the parser can produce from the page.
CandA ==
    [id |-> "c1", title |-> Fire, content |-> Body, location |-> "A",
     is_urgent |-> FALSE, likes |-> 0, has_image |-> FALSE]
CandALiked == [CandA EXCEPT !.likes = 1, !.has_image = TRUE]
CandAEdited == [CandA EXCEPT !.title = Cafe]
CandUrgent ==
    [id |-> "c2", title |-> Fire, content |-> Body, location |-> "B",
     is_urgent |-> TRUE, likes |-> 0, has_image |-> FALSE]
CandB ==
    [id |-> "c3", title |-> Cafe, content |-> Body, location |-> "B",
     is_urgent |-> FALSE, likes |-> 0, has_image |-> FALSE]

\* Parser outputs of one fetch.
Batches ==
    {<<>>, <<CandA>>, <<CandALiked>>, <<CandA, CandA>>, <<CandA, CandAEdited>>,
     <<CandA, CandAEdited, CandA>>, <<CandUrgent, CandA>>, <<CandB>>}

\* str(e) of the DatabaseError raised while persisting posts, and while
\* persisting a notification.
DbErrorPosts == "DatabaseError: posts"
DbErrorNotifications == "DatabaseError: notifications"

\* In the poll ticks every webpush() call succeeds.
AllOk == [e \in Endpoints |-> OkOutcome]

\* PollOnceEnter without the test of the flag: every call goes on to fetch.
PollOnceEnterUnguarded(t) ==
    /\ pc[t] = "idle"
    /\ ticks < MaxTicks
    /\ ticks' = ticks + 1
    /\ tick_base' = [tick_base EXCEPT ![t] = notification_seq]
    /\ parsed' = [parsed EXCEPT ![t] = <<>>]
    /\ new_posts' = [new_posts EXCEPT ![t] = <<>>]
    /\ raised' = [raised EXCEPT ![t] = NULL]
    /\ resends' = [resends EXCEPT ![t] = 0]
    /\ pc' = [pc EXCEPT ![t] = "fetch"]
    /\ _is_polling' = TRUE
    /\ UNCHANGED <<dbvars, attempts, returned, _last_error, _last_poll_time,
                   last_ingested, escaped, auxvars>>

\* _poll_job calls _poll_once, whose first statement tests and sets the flag
\* under self._lock; a call that finds the flag set returns [] from there.
PollOnceEnter(t) ==
    /\ pc[t] = "idle"
    /\ ticks < MaxTicks
    /\ ticks' = ticks + 1
    /\ tick_base' = [tick_base EXCEPT ![t] = notification_seq]
    /\ parsed' = [parsed EXCEPT ![t] = <<>>]
    /\ new_posts' = [new_posts EXCEPT ![t] = <<>>]
    /\ raised' = [raised EXCEPT ![t] = NULL]
    /\ resends' = [resends EXCEPT ![t] = 0]
    /\ IF _is_polling
       THEN /\ pc' = [pc EXCEPT ![t] = "after"]
            /\ UNCHANGED _is_polling
       ELSE /\ pc' = [pc EXCEPT ![t] = "fetch"]
            /\ _is_polling' = TRUE
    /\ UNCHANGED <<dbvars, attempts, returned, _last_error, _last_poll_time,
                   last_ingested, escaped, auxvars>>

\* The interval job fires again after the ticks the model counts: the call
\* of _poll_once as in PollOnceEnter, the count staying at its bound.
PollOnceEnterAgain(t) ==
    /\ pc[t] = "idle"
    /\ ticks = MaxTicks
    /\ tick_base' = [tick_base EXCEPT ![t] = notification_seq]
    /\ parsed' = [parsed EXCEPT ![t] = <<>>]
    /\ new_posts' = [new_posts EXCEPT ![t] = <<>>]
    /\ raised' = [raised EXCEPT ![t] = NULL]
    /\ resends' = [resends EXCEPT ![t] = 0]
    /\ IF _is_polling
       THEN /\ pc' = [pc EXCEPT ![t] = "after"]
            /\ UNCHANGED _is_polling
       ELSE /\ pc' = [pc EXCEPT ![t] = "fetch"]
            /\ _is_polling' = TRUE
    /\ UNCHANGED <<dbvars, attempts, returned, _last_error, _last_poll_time, ticks,
                   last_ingested, escaped, auxvars>>

\* client.get_content() and parser.parse_html_content() succeed; an empty list
\* skips _process_posts.
Fetch(t, batch) ==
    /\ pc[t] = "fetch"
    /\ parsed' = [parsed EXCEPT ![t] = batch]
    /\ _last_poll_time' = ticks
    /\ pc' = [pc EXCEPT ![t] = IF batch = <<>> THEN "finally" ELSE "process"]
    /\ resends' = [resends EXCEPT ![t] = 0]
    /\ UNCHANGED <<dbvars, attempts, returned, _is_polling, _last_error, ticks,
                   new_posts, raised, tick_base, last_ingested, escaped, auxvars>>

\* The session's Retry strategy sends the request again after a connection
\* error or a response with status 429, 500, 502, 503 or 504, inside the one
\* get_content() call of the tick.
Resend(t) ==
    /\ pc[t] = "fetch"
    /\ resends[t] < HTTP_MAX_RETRIES
    /\ resends' = [resends EXCEPT ![t] = @ + 1]
    /\ UNCHANGED <<dbvars, attempts, returned, pollvars, escaped, auxvars>>

\* client.get_content() raises HTTPClientError.
FetchFails(t) ==
    /\ pc[t] = "fetch"
    /\ raised' = [raised EXCEPT ![t] = "HTTPClientError"]
    /\ pc' = [pc EXCEPT ![t] = "finally"]
    /\ UNCHANGED <<dbvars, attempts, returned, _is_polling, _last_error,
                   _last_poll_time, ticks, parsed, new_posts, tick_base,
                   last_ingested, tickvars, auxvars>>

\* A _poll_once that stamps the poll time before it parses.
PollTimeStamped(time, tick) == tick

\* _last_poll_time after _poll_once was left from parse_html_content: the
\* assignment is the statement after it.
PollTimeAfterParseFailure(time, tick) == time

\* parser.parse_html_content() raises: the markup is one the HTML parser
\* rejects, which none of the parser's handlers is reached by.
ParseFails(t) ==
    /\ pc[t] = "fetch"
    /\ raised' = [raised EXCEPT ![t] = "ParserRejectedMarkup"]
    /\ _last_poll_time' = PollTimeAfterParseFailure(_last_poll_time, ticks)
    /\ pc' = [pc EXCEPT ![t] = "finally"]
    /\ resends' = [resends EXCEPT ![t] = 0]
    /\ UNCHANGED <<dbvars, attempts, returned, _is_polling, _last_error, ticks,
                   parsed, new_posts, tick_base, last_ingested, escaped, auxvars>>

\* new_posts = self._process_posts(posts)
Process(t) ==
    /\ pc[t] = "process"
    /\ \E r \in {ProcessPosts(DB, parsed[t], AllOk)} :
          /\ Store(r.db)
          /\ new_posts' = [new_posts EXCEPT ![t] = r.new_posts]
    /\ last_ingested' = parsed[t]
    /\ pc' = [pc EXCEPT ![t] = "finally"]
    /\ UNCHANGED <<returned, _is_polling, _last_error, _last_poll_time, ticks,
                   parsed, raised, tick_base, tickvars, auxvars>>

\* add_posts_bulk raises DatabaseError: its transaction is rolled back and the
\* exception leaves _process_posts, whose handlers do not name it.
ProcessFailsOnPosts(t) ==
    /\ pc[t] = "process"
    /\ raised' = [raised EXCEPT ![t] = DbErrorPosts]
    /\ pc' = [pc EXCEPT ![t] = "finally"]
    /\ UNCHANGED <<dbvars, attempts, returned, _is_polling, _last_error,
                   _last_poll_time, ticks, parsed, new_posts, tick_base,
                   last_ingested, tickvars, auxvars>>

\* The posts are stored and add_notification raises DatabaseError for the k-th
\* added post: create_post_notification does not catch it, nor does the
\* handler of _process_posts, so the posts after it are not reached.
ProcessFailsOnNotification(t, k) ==
    /\ pc[t] = "process"
    /\ LET r == AddPostsBulk(posts, parsed[t])
       IN /\ k \in 1..Len(r.updated)
          /\ Store(NotifyAddedFrom([DB EXCEPT !.posts = r.posts],
                                   SubSeq(r.updated, 1, k - 1), 1, AllOk))
    /\ last_ingested' = parsed[t]
    /\ raised' = [raised EXCEPT ![t] = DbErrorNotifications]
    /\ pc' = [pc EXCEPT ![t] = "finally"]
    /\ UNCHANGED <<returned, _is_polling, _last_error, _last_poll_time, ticks,
                   parsed, new_posts, tick_base, tickvars, auxvars>>

\* A finally clause that leaves the flag as it is.
FlagKept(flag) == flag

\* The flag after the finally clause of _poll_once.
FlagAfterFinally(flag) == FALSE

\* The finally clause of _poll_once, then the return or the propagation.
Finally(t) ==
    /\ pc[t] = "finally"
    /\ _is_polling' = FlagAfterFinally(_is_polling)
    /\ pc' = [pc EXCEPT ![t] = IF raised[t] = NULL THEN "after" ELSE "except"]
    /\ UNCHANGED <<dbvars, attempts, returned, _last_error, _last_poll_time, ticks,
                   parsed, new_posts, raised, tick_base, last_ingested, tickvars,
                   auxvars>>

\* _poll_job after _poll_once returned: the bulk fan-out and the error reset.
JobAfter(t) ==
    /\ pc[t] = "after"
    /\ IF new_posts[t] # <<>>
       THEN \E db \in {CreateBulkNotification(DB, new_posts[t], AllOk)} : Store(db)
       ELSE UNCHANGED <<dbvars, attempts>>
    /\ _last_error' = ""
    /\ pc' = [pc EXCEPT ![t] = "idle"]
    /\ UNCHANGED <<returned, _is_polling, _last_poll_time, ticks, parsed,
                   new_posts, raised, tick_base, last_ingested, tickvars, auxvars>>

\* create_bulk_notification raises DatabaseError from its first
\* create_post_notification call: nothing is stored for it.
JobAfterFails(t) ==
    /\ pc[t] = "after"
    /\ new_posts[t] # <<>>
    /\ raised' = [raised EXCEPT ![t] = DbErrorNotifications]
    /\ pc' = [pc EXCEPT ![t] = "except"]
    /\ UNCHANGED <<dbvars, attempts, returned, _is_polling, _last_error,
                   _last_poll_time, ticks, parsed, new_posts, tick_base,
                   last_ingested, tickvars, auxvars>>

\* An except clause that names no exception a tick raises.
CatchesNone(exception) == FALSE

\* The exceptions _poll_job's except clause names: HTTPClientError, ValueError
\* and TypeError.  DatabaseError derives from Exception only.
CaughtByPollJob(exception) == exception \in {"HTTPClientError", "ValueError", "TypeError"}

\* _poll_job's except clause: str(e) goes to _last_error.
JobExcept(t) ==
    /\ pc[t] = "except"
    /\ CaughtByPollJob(raised[t])
    /\ _last_error' = raised[t]
    /\ pc' = [pc EXCEPT ![t] = "idle"]
    /\ UNCHANGED <<dbvars, attempts, returned, _is_polling, _last_poll_time, ticks,
                   parsed, new_posts, raised, tick_base, last_ingested, tickvars,
                   auxvars>>

\* An exception the except clause does not name leaves _poll_job.
JobEscapes(t) ==
    /\ pc[t] = "except"
    /\ ~CaughtByPollJob(raised[t])
    /\ escaped' = TRUE
    /\ pc' = [pc EXCEPT ![t] = "idle"]
    /\ UNCHANGED <<dbvars, attempts, returned, _is_polling, _last_error,
                   _last_poll_time, ticks, parsed, new_posts, raised, tick_base,
                   last_ingested, resends, auxvars>>

\* PollingService.get_status: a dict of four reads.
GetStatus ==
    /\ returned' = [op |-> "get_status",
                    value |-> [is_running |-> scheduler_running,
                               last_poll |-> _last_poll_time,
                               last_error |-> _last_error,
                               is_polling |-> _is_polling]]
    /\ UNCHANGED <<dbvars, attempts, pollvars, tickvars, auxvars>>

\* ------------------------------------------- the worker pool of a delivery

\* The cap in min(10, len(filtered_subscriptions)).
POOL_CAP == 10

Min(a, b) == IF a <= b THEN a ELSE b

\* The ways a send_push_notification work item ends: it returns True, it
\* returns False for an invalid subscription shape, it returns False after a
\* WebPushException, or a DatabaseError of remove_push_subscription or
\* update_subscription_last_used leaves it.
TaskEnds == {"ok", "invalid", "transport", "storage"}

\* An executor whose caller is handed the exception of a work item.
PoolAbortsOnFailure(st, kind) == IF kind = "storage" THEN "raised" ELSE st

\* The executor keeps what a work item returns or raises in its Future, which
\* _deliver_notification never reads.
PoolAfterTask(st, kind) == st

\* Everything but the worker pool.
notpool == <<dbvars, attempts, returned, pollvars, tickvars, limvars, schedvars,
             latevars>>

\* _deliver_notification with n filtered subscriptions: the executor is
\* created, which raises ValueError when max_workers <= 0, and one work item
\* per subscription is submitted.
DeliverStart(n) ==
    /\ pool_state = "idle"
    /\ pool_n' = n
    /\ max_workers' = Min(POOL_CAP, n)
    /\ pool_state' = IF Min(POOL_CAP, n) <= 0 THEN "raised" ELSE "open"
    /\ UNCHANGED <<started, running, failures, notpool>>

\* A worker thread that is free takes the next work item of the queue.
WorkerTake ==
    /\ pool_state = "open"
    /\ started < pool_n
    /\ Cardinality(running) < max_workers
    /\ started' = started + 1
    /\ running' = running \cup {started + 1}
    /\ UNCHANGED <<pool_state, pool_n, max_workers, failures, notpool>>

\* The send_push_notification call of work item i ends.
WorkerFinish(i, kind) ==
    /\ pool_state = "open"
    /\ i \in running
    /\ running' = running \ {i}
    /\ failures' = IF kind = "ok" THEN failures ELSE failures \cup {kind}
    /\ pool_state' = PoolAfterTask(pool_state, kind)
    /\ UNCHANGED <<pool_n, max_workers, started, notpool>>

\* The with block ends: shutdown(wait=True) returns once every work item has
\* been run.
DeliverExit ==
    /\ pool_state = "open"
    /\ started = pool_n
    /\ running = {}
    /\ pool_state' = "completed"
    /\ UNCHANGED <<pool_n, max_workers, started, running, failures, notpool>>

\* --------------------------------------------------------- the rate limiter

\* Everything but the rate limiter.
notlim == <<dbvars, attempts, returned, pollvars, tickvars, poolvars, schedvars,
            latevars>>

\* A with block that keeps the lock when it is left.
LockKept(c) == c

\* The lock after its holder has left the with block.
LockReleased(c) == NULL

\* last_reset and calls_made after "if now - last_reset >= period".
WindowAt(n) ==
    IF n - last_reset >= LimitPeriod
    THEN [last_reset |-> n, calls_made |-> 0]
    ELSE [last_reset |-> last_reset, calls_made |-> calls_made]

\* A thread calls the wrapped function and waits for the lock.
Call(c) ==
    /\ wpc[c] = "out"
    /\ called[c] < MaxCalls
    /\ now <= MaxTime
    /\ called' = [called EXCEPT ![c] = @ + 1]
    /\ wpc' = [wpc EXCEPT ![c] = "wait"]
    /\ UNCHANGED <<now, last_reset, calls_made, lock, wake_at, invoked, permitted,
                   notlim>>

\* The caller takes the lock and runs the locked section up to its end or up
\* to time.sleep(), which it enters holding the lock.
Enter(c) ==
    /\ wpc[c] = "wait"
    /\ lock = NULL
    /\ LET w == WindowAt(now)
           sleep_time == LimitPeriod - (now - w.last_reset)
       IN IF w.calls_made >= LimitCalls /\ sleep_time > 0
          THEN /\ lock' = c
               /\ last_reset' = w.last_reset
               /\ calls_made' = w.calls_made
               /\ wake_at' = [wake_at EXCEPT ![c] = now + sleep_time]
               /\ wpc' = [wpc EXCEPT ![c] = "sleep"]
               /\ UNCHANGED permitted
          ELSE /\ lock' = LockReleased(c)
               /\ last_reset' = IF w.calls_made >= LimitCalls THEN now ELSE w.last_reset
               /\ calls_made' = IF w.calls_made >= LimitCalls THEN 1 ELSE w.calls_made + 1
               /\ wpc' = [wpc EXCEPT ![c] = "run"]
               /\ permitted' = Append(permitted, now)
               /\ UNCHANGED wake_at
    /\ UNCHANGED <<now, called, invoked, notlim>>

\* time.sleep() returns, not before the time asked for: the window restarts
\* at the time read then and the call is counted in it.
Wake(c) ==
    /\ wpc[c] = "sleep"
    /\ now >= wake_at[c]
    /\ last_reset' = now
    /\ calls_made' = 1
    /\ lock' = LockReleased(c)
    /\ wpc' = [wpc EXCEPT ![c] = "run"]
    /\ permitted' = Append(permitted, now)
    /\ UNCHANGED <<now, wake_at, called, invoked, notlim>>

\* return func(*args, **kwargs), outside the lock.
Invoke(c) ==
    /\ wpc[c] = "run"
    /\ invoked' = [invoked EXCEPT ![c] = @ + 1]
    /\ wpc' = [wpc EXCEPT ![c] = "out"]
    /\ UNCHANGED <<now, last_reset, calls_made, lock, wake_at, called, permitted,
                   notlim>>

\* The clock advances, as long as a caller may still arrive or is asleep.
Tick ==
    /\ \/ now < MaxTime
       \/ \E c \in Callers : wpc[c] = "sleep" /\ now < wake_at[c]
    /\ now' = now + 1
    /\ UNCHANGED <<last_reset, calls_made, lock, wpc, wake_at, called, invoked,
                   permitted, notlim>>

\* ------------------------------------------------------------ the scheduler

\* Everything but the scheduler.
notsched == <<dbvars, attempts, returned, pollvars, tickvars, poolvars, limvars,
              latevars>>

\* PollingService.SCHEDULER_NAME, the id of the poll job.
SCHEDULER_NAME == <<"polling_service", 0>>

\* The job add_job registers for _poll_job, under the id given.
PollJob == [id |-> SCHEDULER_NAME, func |-> "_poll_job"]

\* The job add_job registers for _cleanup_job: no id is given, so that the
\* scheduler makes a new one for each registration.
CleanupJob(n) == [id |-> <<"auto", n>>, func |-> "_cleanup_job"]

\* A job store that keeps its jobs when it is shut down.
JobsKept(store) == store

\* scheduler.shutdown() shuts the job stores down, and the default job store,
\* a MemoryJobStore, removes all its jobs when shut down.
JobsAfterShutdown(store) == {}

\* PollingService.start
Start ==
    /\ Len(history) < MaxOps
    /\ history' = Append(history, "start")
    /\ IF scheduler_running
       THEN UNCHANGED <<scheduler_running, jobs, job_seq, forced>>
       ELSE /\ jobs' = jobs \cup {PollJob, CleanupJob(job_seq + 1)}
            /\ job_seq' = job_seq + 1
            /\ scheduler_running' = TRUE
            /\ UNCHANGED forced
    /\ UNCHANGED notsched

\* PollingService.stop
Stop ==
    /\ Len(history) < MaxOps
    /\ history' = Append(history, "stop")
    /\ IF scheduler_running
       THEN /\ scheduler_running' = FALSE
            /\ jobs' = JobsAfterShutdown(jobs)
            /\ forced' = FALSE
            /\ UNCHANGED job_seq
       ELSE UNCHANGED <<scheduler_running, jobs, job_seq, forced>>
    /\ UNCHANGED notsched

\* A manual_poll that registers the poll job when it finds none.
ManualPollRegisters(outcome) ==
    /\ Len(history) < MaxOps
    /\ outcome = "ok"
    /\ history' = Append(history, "manual_poll")
    /\ returned' = [op |-> "manual_poll", value |-> NULL]
    /\ jobs' = jobs \cup {PollJob}
    /\ forced' = TRUE
    /\ UNCHANGED <<scheduler_running, job_seq, dbvars, attempts, pollvars, tickvars,
                   poolvars, limvars, latevars>>

\* What job.modify(next_run_time=now) does in manual_poll: it returns, or it
\* raises one of the exceptions the except clause names.
ModifyOutcomes == {"ok", "ValueError", "RuntimeError"}

\* PollingService.manual_poll: the poll job, if registered, is made due now.
\* Without the job the call logs and returns; a failure of job.modify goes to
\* _last_error.  Every path returns None.
ManualPoll(outcome) ==
    /\ Len(history) < MaxOps
    /\ history' = Append(history, "manual_poll")
    /\ returned' = [op |-> "manual_poll", value |-> NULL]
    /\ IF PollJob \notin jobs
       THEN /\ outcome = "ok"
            /\ UNCHANGED <<forced, _last_error>>
       ELSE IF outcome = "ok"
            THEN /\ forced' = TRUE
                 /\ UNCHANGED _last_error
            ELSE /\ _last_error' = outcome
                 /\ UNCHANGED forced
    /\ UNCHANGED <<scheduler_running, jobs, job_seq, dbvars, attempts, _is_polling,
                   _last_poll_time, ticks, pc, parsed, new_posts, raised, tick_base,
                   last_ingested, tickvars, poolvars, limvars, latevars>>

\* A scheduler whose thread runs jobs whether started or not.
DispatchesAlways(is_running, store, job) == TRUE

\* The scheduler's thread runs a job when the scheduler is running and the
\* job is in its store.
SchedulerDispatches(is_running, store, job) == is_running /\ job \in store

\* The scheduler's thread starts a tick of the poll job: _poll_job is called.
PollTick(t) ==
    /\ SchedulerDispatches(scheduler_running, jobs, PollJob)
    /\ PollOnceEnter(t)

\* datetime('now') moves on.
Advance ==
    /\ clock < MaxClock
    /\ clock' = clock + 1
    /\ UNCHANGED <<dbvars, attempts, returned, pollvars, tickvars, poolvars, limvars,
                   schedvars, expires_at, read_at, auth_tokens, in_transaction, cpn>>

\* The rows DELETE FROM notifications WHERE expires_at <= datetime('now')
\* removes.  A row the model keeps no expiry for was created during the run
\* and expires after every time the model reaches.
Expired(ids) == {i \in ids : i \in DOMAIN expires_at /\ expires_at[i] <= clock}

\* A deletion of expired notifications that leaves their user rows behind.
DeleteExpiredOnly(db) ==
    [db EXCEPT !.notifications = [i \in DOMAIN @ \ Expired(DOMAIN @) |-> @[i]]]

\* DatabaseManager.cleanup_expired_notifications: the DELETE, and the
\* ON DELETE CASCADE of user_notifications.notification_id.
CleanupExpiredNotifications(db) ==
    LET gone == Expired(DOMAIN db.notifications)
    IN [db EXCEPT
          !.notifications = [i \in DOMAIN @ \ gone |-> @[i]],
          !.user_notifications = {r \in @ : r.notification_id \notin gone}]

\* The read_at values of the rows the cascade leaves.
StampsAfterCleanup ==
    [k \in {x \in DOMAIN read_at : x[2] \notin Expired(DOMAIN notifications)} |->
        read_at[k]]

\* The auth_tokens row of a session last accessed at the time given.
AccessedAt(time) == [accessed |-> TRUE, last_accessed |-> time]

\* The auth_tokens row of a session stored before the last_accessed column was
\* added: the column is NULL.
NeverAccessed == [accessed |-> FALSE, last_accessed |-> 0]

\* DatabaseManager.cleanup_old_tokens(days): DELETE FROM auth_tokens WHERE
\* last_accessed <= datetime('now', '-days day'); a NULL last_accessed never
\* compares true.
CleanupOldTokens(tokens, days) ==
    [k \in {x \in DOMAIN tokens :
               ~tokens[x].accessed \/ tokens[x].last_accessed > clock - days} |->
        tokens[k]]

\* The scheduler's thread runs _cleanup_job and both deletions succeed.
CleanupTick ==
    /\ \E n \in 1..job_seq : SchedulerDispatches(scheduler_running, jobs, CleanupJob(n))
    /\ ~in_transaction
    /\ Store(CleanupExpiredNotifications(DB))
    /\ expires_at' = [i \in DOMAIN expires_at \ Expired(DOMAIN notifications) |->
                         expires_at[i]]
    /\ read_at' = StampsAfterCleanup
    /\ auth_tokens' = CleanupOldTokens(auth_tokens, AUTH_TOKEN_TTL_DAYS)
    /\ returned' = [op |-> "_cleanup_job", value |-> NULL]
    /\ UNCHANGED <<pollvars, tickvars, poolvars, limvars, schedvars, clock,
                   in_transaction, cpn>>

\* What stops a cleanup tick: storage fails in the first deletion or in the
\* second (DatabaseError, which _cleanup_job does not name and the scheduler's
\* executor logs), or Config answers with a value int arithmetic rejects
\* (TypeError, which _cleanup_job logs).
CleanupFailures ==
    {[stage |-> "notifications", raised |-> "DatabaseError"],
     [stage |-> "tokens", raised |-> "DatabaseError"],
     [stage |-> "tokens", raised |-> "TypeError"]}

\* The exceptions _cleanup_job's except clause names.
CaughtByCleanupJob(exception) == exception \in {"ValueError", "TypeError", "RuntimeError"}

\* An executor that drops a job an exception has left.
JobsWithout(store, job) == store \ {job}

\* The scheduler's executor logs an exception that leaves a job; the job
\* stays in the store.
JobsAfterJobError(store, job) == store

\* A cleanup tick that fails: what was deleted before the failure stays deleted.
CleanupTickFails(f) ==
    /\ \E n \in 1..job_seq :
          /\ SchedulerDispatches(scheduler_running, jobs, CleanupJob(n))
          /\ jobs' = IF CaughtByCleanupJob(f.raised)
                     THEN jobs
                     ELSE JobsAfterJobError(jobs, CleanupJob(n))
    /\ IF f.stage = "tokens" /\ ~in_transaction
       THEN /\ Store(CleanupExpiredNotifications(DB))
            /\ expires_at' = [i \in DOMAIN expires_at \ Expired(DOMAIN notifications) |->
                                 expires_at[i]]
            /\ read_at' = StampsAfterCleanup
       ELSE UNCHANGED <<dbvars, attempts, expires_at, read_at>>
    /\ returned' = [op |-> "_cleanup_job", raised |-> f.raised]
    /\ UNCHANGED <<pollvars, tickvars, poolvars, limvars, scheduler_running, job_seq,
                   forced, history, clock, auth_tokens, in_transaction, cpn>>

\* ------------------------------------------------------ inbox and sessions

\* The user's rows among the ids given.
OwnedIds(rows, user_id, ids) ==
    {r.notification_id : r \in {x \in rows : x.user_id = user_id /\ x.notification_id \in ids}}

\* UPDATE user_notifications SET is_read = 1, read_at = CURRENT_TIMESTAMP for
\* the rows given: the table, the read_at values and the cursor's rowcount.
SetRead(rows, stamps, hit) ==
    [rows |-> {IF r \in hit THEN [r EXCEPT !.is_read = TRUE] ELSE r : r \in rows},
     read_at |-> [k \in DOMAIN stamps \cup {<<r.user_id, r.notification_id>> : r \in hit} |->
                     IF \E r \in hit : k = <<r.user_id, r.notification_id>>
                     THEN clock
                     ELSE stamps[k]],
     rowcount |-> Cardinality(hit)]

\* A multi-id mark-read that updates the rows the user holds and asks nothing.
MarkOwnedRead(rows, stamps, user_id, ids) ==
    LET r == SetRead(rows, stamps,
                     {x \in rows : x.user_id = user_id /\ x.notification_id \in ids})
    IN [rows |-> r.rows, read_at |-> r.read_at, raised |-> NULL,
        value |-> ids = {} \/ r.rowcount > 0]

\* DatabaseManager.mark_notifications_read: True for an empty list; the
\* DatabaseError("403 Forbidden ...") when an id has no row of the user (no
\* value is returned then); the UPDATE otherwise.
MarkNotificationsRead(rows, stamps, user_id, ids) ==
    IF ids = {}
    THEN [rows |-> rows, read_at |-> stamps, raised |-> NULL, value |-> TRUE]
    ELSE IF ids \ OwnedIds(rows, user_id, ids) # {}
         THEN [rows |-> rows, read_at |-> stamps, raised |-> "DatabaseError",
               value |-> FALSE]
         ELSE LET r == SetRead(rows, stamps,
                               {x \in rows : x.user_id = user_id
                                              /\ x.notification_id \in ids})
              IN [rows |-> r.rows, read_at |-> r.read_at, raised |-> NULL,
                  value |-> r.rowcount > 0]

\* DatabaseManager.mark_user_notification_read
MarkUserNotificationRead(rows, stamps, user_id, notification_id) ==
    LET r == SetRead(rows, stamps,
                     {x \in rows : x.user_id = user_id
                                    /\ x.notification_id = notification_id})
    IN [rows |-> r.rows, read_at |-> r.read_at, raised |-> NULL,
        value |-> r.rowcount > 0]

\* A mark-all whose UPDATE names the user only.
MarkEveryRowOfUser(rows, stamps, user_id) ==
    LET r == SetRead(rows, stamps, {x \in rows : x.user_id = user_id})
    IN [rows |-> r.rows, read_at |-> r.read_at, raised |-> NULL,
        value |-> r.rowcount > 0]

\* DatabaseManager.mark_all_user_notifications_read: WHERE user_id = ? AND
\* is_read = 0.
MarkAllUserNotificationsRead(rows, stamps, user_id) ==
    LET r == SetRead(rows, stamps, {x \in rows : x.user_id = user_id /\ ~x.is_read})
    IN [rows |-> r.rows, read_at |-> r.read_at, raised |-> NULL,
        value |-> r.rowcount > 0]

\* DatabaseManager.get_user_notification_count with only_unread: the user's
\* unread rows joined to notifications that have not expired.
GetUserNotificationCount(user_id) ==
    Cardinality({r \in user_notifications :
                    /\ r.user_id = user_id
                    /\ ~r.is_read
                    /\ r.notification_id \in DOMAIN notifications
                    /\ r.notification_id \notin Expired(DOMAIN notifications)})

\* A mark-read call of the storage layer has run: r is what it left.
InboxCall(op, user_id, ids, r) ==
    /\ ~in_transaction
    /\ user_notifications' = r.rows
    /\ read_at' = r.read_at
    /\ returned' = IF r.raised = NULL
                   THEN [op |-> op, user_id |-> user_id, ids |-> ids,
                         value |-> r.value]
                   ELSE [op |-> op, user_id |-> user_id, ids |-> ids,
                         raised |-> r.raised]
    /\ UNCHANGED <<posts, notifications, notification_seq, push_subscriptions,
                   notification_settings, notification_keywords, keywords, attempts,
                   pollvars, tickvars, poolvars, limvars, schedvars, clock,
                   expires_at, auth_tokens, in_transaction, cpn>>

MarkNotificationsReadCall(user_id, ids) ==
    InboxCall("mark_notifications_read", user_id, ids,
              MarkNotificationsRead(user_notifications, read_at, user_id, ids))

MarkUserNotificationReadCall(user_id, notification_id) ==
    InboxCall("mark_user_notification_read", user_id, {notification_id},
              MarkUserNotificationRead(user_notifications, read_at, user_id,
                                       notification_id))

MarkAllUserNotificationsReadCall(user_id) ==
    InboxCall("mark_all_user_notifications_read", user_id, {},
              MarkAllUserNotificationsRead(user_notifications, read_at, user_id))

\* Session ids of the auth_tokens table.
Sessions == {"s1"}

\* DatabaseManager.store_token and get_token: both leave the session's
\* last_accessed at CURRENT_TIMESTAMP (get_token for a stored session only).
TouchToken(session_id, storing) ==
    /\ ~in_transaction
    /\ storing \/ session_id \in DOMAIN auth_tokens
    /\ auth_tokens' = [k \in DOMAIN auth_tokens \cup {session_id} |->
                          IF k = session_id THEN AccessedAt(clock) ELSE auth_tokens[k]]
    /\ UNCHANGED <<dbvars, attempts, returned, pollvars, tickvars, poolvars, limvars,
                   schedvars, clock, expires_at, read_at, in_transaction, cpn>>

\* ------------------------------------------------------------ settings

\* A character no UTF-8 encoding exists for: a lone surrogate, which
\* json.loads yields for the escape "\\ud800".
LoneSurrogate == "<ud800>"

\* The sqlite3 module can bind the keyword as a TEXT parameter.
Encodable(kw) == \A i \in 1..Len(kw) : kw[i] # LoneSurrogate

KwGood == <<"g", "o", "o", "d">>
KwBad == <<LoneSurrogate, "a", "b", "c">>

\* A locationFilter whose locations value is the number 5.
SettingsLocNumber ==
    [pushNotifications |-> TRUE,
     locationFilter |-> [enabled |-> TRUE, locations_number |-> 5],
     keywordFilter |-> [enabled |-> FALSE]]

\* The fields update_settings requires.
RequiredFields ==
    {"language", "desktopNotifications", "pushNotifications", "updateInterval",
     "locationFilter", "keywordFilter", "keywords"}

\* A request body update_settings accepts and stores whole.
GoodInput(settings, kws) ==
    [fields |-> RequiredFields, updateInterval |-> 5, language |-> "en",
     keywords |-> kws, settings |-> settings]

\* Request bodies of POST /api/notifications/settings: bodies that pass
\* the validation, one body for each validation that can fail, a body whose
\* locations value is a number, and a body whose second keyword cannot be encoded.
SettingsInputs ==
    {GoodInput(SettingsOptOut, <<>>),
     GoodInput(SettingsLocA, <<>>),
     GoodInput(SettingsKeyword, <<KwFir>>),
     [GoodInput(SettingsLocA, <<>>) EXCEPT !.fields = RequiredFields \ {"language"}],
     [GoodInput(SettingsLocA, <<>>) EXCEPT !.updateInterval = 7],
     [GoodInput(SettingsLocA, <<>>) EXCEPT !.language = "de"],
     GoodInput(SettingsKeyword, [i \in 1..(MAX_KEYWORDS + 1) |-> KwFir]),
     GoodInput(SettingsKeyword, <<KwFir, Body>>),
     GoodInput([SettingsLocA EXCEPT !.keywordFilter = EmptyObj], <<KwFir>>),
     GoodInput(SettingsLocNumber, <<>>),
     GoodInput(SettingsKeyword, <<KwGood, KwBad>>)}

\* The validation of update_settings.
SettingsValid(p) ==
    /\ RequiredFields \subseteq p.fields
    /\ p.updateInterval \in {1, 5, 15, 30, 60}
    /\ p.language \in {"en", "hu", "sv"}
    /\ Len(p.keywords) <= MAX_KEYWORDS
    /\ \A i \in 1..Len(p.keywords) : Len(p.keywords[i]) >= MIN_KEYWORD_LENGTH
    /\ "enabled" \in DOMAIN Get(p.settings, "keywordFilter", [enabled |-> FALSE])

\* The keywords a loop of INSERT statements binds before the first it cannot
\* encode.
InsertedBeforeFailure(kws) ==
    {kws[i] : i \in {j \in 1..Len(kws) : \A k \in 1..j : Encodable(kws[k])}}

\* dict.update: the keys of the second object override those of the first.
Override(defaults, stored) ==
    [k \in DOMAIN defaults \cup DOMAIN stored |->
        IF k \in DOMAIN stored THEN stored[k] ELSE defaults[k]]

\* The object update_settings stores for an accepted body: the body without
\* its keywords.
SettingsCopy(p) ==
    Override([language |-> p.language, desktopNotifications |-> TRUE,
              updateInterval |-> p.updateInterval],
             p.settings)

\* NotificationService.update_settings on storage db.  A body that fails the
\* validation returns False.  With a transaction left open on the connection
\* the first BEGIN raises sqlite3.OperationalError, which leaves the call.
\* add_global_keywords inserts the keywords inside one transaction: the
\* UnicodeEncodeError of a keyword is no sqlite3.Error, so _transaction neither
\* rolls back nor commits, and update_settings returns False from its handler
\* of ValueError.  Otherwise the keywords and the settings are stored.
UpdateSettings(db, open, user_key, p) ==
    IF ~SettingsValid(p)
    THEN [db |-> db, open |-> open, raised |-> NULL, value |-> FALSE]
    ELSE IF open
    THEN [db |-> db, open |-> open, raised |-> "OperationalError", value |-> FALSE]
    ELSE IF \E i \in 1..Len(p.keywords) : ~Encodable(p.keywords[i])
    THEN [db |-> [db EXCEPT !.keywords = @ \cup InsertedBeforeFailure(p.keywords)],
          open |-> TRUE, raised |-> NULL, value |-> FALSE]
    ELSE LET kws == {p.keywords[i] : i \in 1..Len(p.keywords)}
         IN [db |-> [db EXCEPT
                        !.keywords = @ \cup kws,
                        !.notification_keywords =
                            [u \in DOMAIN @ \cup {user_key} |->
                                IF u = user_key THEN kws ELSE @[u]],
                        !.notification_settings =
                            [u \in DOMAIN @ \cup {user_key} |->
                                IF u = user_key THEN SettingsCopy(p) ELSE @[u]]],
             open |-> FALSE, raised |-> NULL, value |-> TRUE]

\* update_settings called by save_notification_settings.
UpdateSettingsCall(user_key, p) ==
    \E r \in {UpdateSettings(DB, in_transaction, user_key, p)} :
       /\ Store(r.db)
       /\ in_transaction' = r.open
       /\ returned' = IF r.raised = NULL
                      THEN [op |-> "update_settings", user_key |-> user_key,
                            value |-> r.value]
                      ELSE [op |-> "update_settings", user_key |-> user_key,
                            raised |-> r.raised]
       /\ UNCHANGED <<pollvars, tickvars, poolvars, limvars, schedvars, clock,
                      expires_at, read_at, auth_tokens, cpn>>

\* The defaults of get_settings.
DefaultSettings ==
    [language |-> "en", desktopNotifications |-> TRUE, pushNotifications |-> TRUE,
     updateInterval |-> 5, locationFilter |-> [enabled |-> FALSE, locations |-> {}],
     keywordFilter |-> [enabled |-> FALSE], keywords |-> {}]

\* A get_settings that answers with the defaults whatever is stored.
GetDefaultSettings(db, user_key) == DefaultSettings

\* NotificationService.get_settings: the defaults without a stored row and
\* for a blob json.loads rejects; otherwise the defaults updated with the
\* stored object, and with the user's keyword rows when there are any.
GetSettings(db, user_key) ==
    IF user_key \notin DOMAIN db.notification_settings
    THEN DefaultSettings
    ELSE IF IsMalformed(db.notification_settings[user_key])
    THEN DefaultSettings
    ELSE LET merged == Override(DefaultSettings, db.notification_settings[user_key])
             db_keywords == db.notification_keywords[user_key]
         IN IF db_keywords # {}
            THEN [k \in DOMAIN merged |->
                     IF k = "keywords" THEN db_keywords ELSE merged[k]]
            ELSE merged

\* get_settings called by the dashboard and by get_notification_settings.
GetSettingsCall(user_key) ==
    /\ ~in_transaction
    /\ returned' = [op |-> "get_settings", user_key |-> user_key,
                    value |-> GetSettings(DB, user_key)]
    /\ UNCHANGED <<dbvars, attempts, pollvars, tickvars, auxvars>>

\* create_post_notification called while the connection can write, every
\* webpush() call succeeding.
FanOut(id) ==
    /\ ~in_transaction
    /\ id \in DOMAIN posts
    /\ CreatePostNotificationCall(id, [e \in SubmittedFor(DB, PostOf(DB, id)) |-> OkOutcome])

\* ------------------------------------- a fan-out among concurrent requests

\* create_post_notification up to its call of _deliver_notification: the
\* Notification row, the target users as resolved now, and their rows.  A
\* non-urgent post without target users ends the call here.
CpnRecord(id) ==
    /\ cpn = NoCall
    /\ ~in_transaction
    /\ id \in DOMAIN posts
    /\ notification_seq < MaxNotifications
    /\ LET post == PostOf(DB, id)
           with_row == AddNotification(Fresh, post)
           notification_id == with_row.notification_seq
           target_users == IF post.is_urgent
                           THEN AllUserKeysCombined(Fresh)
                           ELSE GetFilteredUsersForPost(Fresh, post)
       IN /\ Store([with_row EXCEPT !.user_notifications =
                       AddUserNotificationsBulk(@, notification_id, target_users)])
          /\ IF ~post.is_urgent /\ target_users = {}
             THEN /\ cpn' = NoCall
                  /\ returned' = [op |-> "create_post_notification", post_id |-> id,
                                  value |-> [kind |-> "notification",
                                             notification |->
                                                NotificationRow(post, notification_id)]]
             ELSE /\ cpn' = [stage |-> "deliver", post_id |-> id,
                             notification_id |-> notification_id,
                             is_urgent |-> post.is_urgent,
                             target_users |-> target_users]
                  /\ UNCHANGED returned
    /\ UNCHANGED <<pollvars, tickvars, poolvars, limvars, schedvars, clock,
                   expires_at, read_at, auth_tokens, in_transaction>>

\* _deliver_notification of the call under way: the subscriptions and the
\* settings are read again, now.
CpnDeliver ==
    /\ cpn # NoCall
    /\ LET post == PostOf(DB, cpn.post_id)
           notification == NotificationRow(post, cpn.notification_id)
           target_users == IF cpn.is_urgent THEN {} ELSE cpn.target_users
       IN /\ Store(DeliverNotification(DB, notification, cpn.is_urgent, target_users,
                                       AllOk))
          /\ returned' = [op |-> "create_post_notification", post_id |-> cpn.post_id,
                          value |-> IF DeliverRaises(DB, cpn.is_urgent, target_users)
                                    THEN [kind |-> "fallback",
                                          notification |-> FallbackNotification(post)]
                                    ELSE [kind |-> "notification",
                                          notification |-> notification]]
    /\ cpn' = NoCall
    /\ UNCHANGED <<pollvars, tickvars, poolvars, limvars, schedvars, clock,
                   expires_at, read_at, auth_tokens, in_transaction>>

\* POST /subscribe: add_push_subscription(sub, user_key), INSERT OR REPLACE
\* by endpoint, with the device id made from the endpoint.
Subscribe(user_key, endpoint) ==
    /\ ~in_transaction
    /\ push_subscriptions' =
          [e \in DOMAIN push_subscriptions \cup {endpoint} |->
              IF e = endpoint
              THEN [user_key |-> user_key, device_id |-> DeviceIdOf(endpoint),
                    is_active |-> TRUE]
              ELSE push_subscriptions[e]]
    /\ UNCHANGED <<posts, notifications, notification_seq, user_notifications,
                   notification_settings, notification_keywords, keywords, attempts,
                   returned, pollvars, tickvars, auxvars>>

\* POST /unsubscribe: remove_push_subscription(sub).
Unsubscribe(endpoint) ==
    /\ ~in_transaction
    /\ endpoint \in DOMAIN push_subscriptions
    /\ push_subscriptions' = RemovePushSubscription(push_subscriptions, endpoint, NULL, NULL)
    /\ UNCHANGED <<posts, notifications, notification_seq, user_notifications,
                   notification_settings, notification_keywords, keywords, attempts,
                   returned, pollvars, tickvars, auxvars>>

\* ------------------------------------------- transactions of the storage

\* A post whose title holds a lone surrogate, after one the database can hold.
CandBadTitle ==
    [id |-> "c4", title |-> <<"b", "a", "d", LoneSurrogate>>, content |-> Body,
     location |-> "A", is_urgent |-> FALSE, likes |-> 0, has_image |-> FALSE]

\* The sqlite3 module can bind the columns of the post.
PostEncodable(post) == Encodable(post.title) /\ Encodable(post.content)

\* The candidates the loop handles before the first it cannot bind.
BoundBeforeFailure(batch) ==
    SubSeq(batch, 1,
           Cardinality({j \in 1..Len(batch) : \A k \in 1..j : PostEncodable(batch[k])}))

\* What a statement of a transaction meets: nothing, or an sqlite3.Error
\* (the disk is full, the database is locked by another process).
Faults == {"none", "sqlite3.Error"}

\* add_posts_bulk inside _transaction, on a connection with or without an
\* open transaction.  BEGIN on an open transaction raises
\* sqlite3.OperationalError before the try block.  An sqlite3.Error of the
\* body is rolled back and raised as DatabaseError.  The UnicodeEncodeError
\* of a parameter is no sqlite3.Error: the handler does not run, success is
\* False, so nothing is committed and nothing rolled back, and the rows
\* written so far stay in the open transaction of the one connection every
\* reader uses.
AddPostsBulkTx(tbl, open, batch, fault) ==
    IF open
    THEN [posts |-> tbl, open |-> TRUE, raised |-> "OperationalError"]
    ELSE IF fault = "sqlite3.Error"
    THEN [posts |-> tbl, open |-> FALSE, raised |-> "DatabaseError"]
    ELSE IF \E i \in 1..Len(batch) : ~PostEncodable(batch[i])
    THEN [posts |-> AddPostsBulk(tbl, BoundBeforeFailure(batch)).posts,
          open |-> TRUE, raised |-> "UnicodeEncodeError"]
    ELSE [posts |-> AddPostsBulk(tbl, batch).posts, open |-> FALSE, raised |-> NULL]

\* Parser outputs handed to add_posts_bulk.
TxBatches ==
    {<<CandA>>, <<CandB>>, <<CandA, CandAEdited>>, <<CandUrgent, CandB>>,
     <<CandB, CandBadTitle>>}

\* add_posts_bulk called by _process_posts.
AddPostsBulkCall(batch, fault) ==
    \E r \in {AddPostsBulkTx(posts, in_transaction, batch, fault)} :
       /\ posts' = r.posts
       /\ in_transaction' = r.open
       /\ returned' = [op |-> "add_posts_bulk", raised |-> r.raised]
       /\ UNCHANGED <<notifications, notification_seq, user_notifications,
                      push_subscriptions, notification_settings,
                      notification_keywords, keywords, attempts, pollvars, tickvars,
                      poolvars, limvars, schedvars, clock, expires_at, read_at,
                      auth_tokens, cpn>>

\* ----------------------------------------------------------- specification

\* The polling service after construction, its scheduler not started.
PollInit ==
    /\ _is_polling = FALSE
    /\ _last_error = NULL
    /\ _last_poll_time = 0
    /\ ticks = 0
    /\ pc = [t \in Threads |-> "idle"]
    /\ parsed = [t \in Threads |-> <<>>]
    /\ new_posts = [t \in Threads |-> <<>>]
    /\ raised = [t \in Threads |-> NULL]
    /\ tick_base = [t \in Threads |-> 0]
    /\ last_ingested = <<>>

TickInit ==
    /\ escaped = FALSE
    /\ resends = [t \in Threads |-> 0]

\* No delivery under way.
PoolInit ==
    /\ pool_state = "idle"
    /\ pool_n = 0
    /\ max_workers = 0
    /\ started = 0
    /\ running = {}
    /\ failures = {}

\* The closure as the decorator creates it, at time 0.
LimInit ==
    /\ now = 0
    /\ last_reset = 0
    /\ calls_made = 0
    /\ lock = NULL
    /\ wpc = [c \in Callers |-> "out"]
    /\ wake_at = [c \in Callers |-> 0]
    /\ called = [c \in Callers |-> 0]
    /\ invoked = [c \in Callers |-> 0]
    /\ permitted = <<>>

\* BackgroundScheduler(daemon=True) as __init__ creates it.
SchedInit ==
    /\ scheduler_running = FALSE
    /\ jobs = {}
    /\ job_seq = 0
    /\ forced = FALSE
    /\ history = <<>>

\* No expiry recorded, no session, no transaction open, no fan-out under way.
LateInit ==
    /\ clock = 0
    /\ expires_at = <<>>
    /\ read_at = <<>>
    /\ auth_tokens = <<>>
    /\ in_transaction = FALSE
    /\ cpn = NoCall

AuxInit == PoolInit /\ LimInit /\ SchedInit /\ LateInit

\* Any content an existing database file can have, no notification created yet.
Init ==
    /\ PollInit
    /\ TickInit
    /\ AuxInit
    /\ posts = FanoutPosts
    /\ notifications = <<>>
    /\ notification_seq = 0
    /\ user_notifications = {}
    /\ push_subscriptions \in StoredSubscriptionTables
    /\ \E prof \in {f \in [Users -> UNION {StoredProfiles(u) : u \in Users}] :
                       \A u \in Users : f[u] \in StoredProfiles(u)} :
          /\ notification_settings =
                [u \in {x \in Users : prof[x].stored} |-> prof[u].settings]
          /\ notification_keywords = [u \in Users |-> prof[u].keywords]
          /\ keywords = UNION {prof[u].keywords : u \in Users}
    /\ attempts = {}
    /\ returned = [op |-> "init"]

Next ==
    \/ \E id \in DOMAIN posts :
          \E out \in OutcomeMaps(SubmittedFor(DB, PostOf(DB, id))) :
             CreatePostNotificationCall(id, out)
    \/ \E out \in OutcomeMaps(FilteredSubscriptions(DB, TRUE, {})) :
          CreateTestNotificationCall(out)

Spec == Init /\ [][Next]_vars

\* A new database with two subscribed users, one of them with a location filter.
InitPoll ==
    /\ PollInit
    /\ TickInit
    /\ AuxInit
    /\ posts = <<>>
    /\ notifications = <<>>
    /\ notification_seq = 0
    /\ user_notifications = {}
    /\ push_subscriptions =
          [e \in Endpoints |->
              [user_key |-> IF e = "e1" THEN "u1" ELSE "u2",
               device_id |-> DeviceIdOf(e), is_active |-> TRUE]]
    /\ notification_settings = [u \in {"u1"} |-> SettingsLocA]
    /\ notification_keywords = [u \in Users |-> {}]
    /\ keywords = {}
    /\ attempts = {}
    /\ returned = [op |-> "init"]

NextPoll ==
    \/ \E t \in Threads : PollOnceEnter(t)
    \/ \E t \in Threads, batch \in Batches : Fetch(t, batch)
    \/ \E t \in Threads : Resend(t)
    \/ \E t \in Threads : FetchFails(t)
    \/ \E t \in Threads : Process(t)
    \/ \E t \in Threads : ProcessFailsOnPosts(t)
    \/ \E t \in Threads : \E k \in 1..Len(parsed[t]) : ProcessFailsOnNotification(t, k)
    \/ \E t \in Threads : Finally(t)
    \/ \E t \in Threads : JobAfter(t)
    \/ \E t \in Threads : JobAfterFails(t)
    \/ \E t \in Threads : JobExcept(t)
    \/ \E t \in Threads : JobEscapes(t)

SpecPoll == InitPoll /\ [][NextPoll]_vars

\* One delivery on a quiet service.
InitPool == InitPoll

NextPool ==
    \/ \E n \in 0..MaxSubs : DeliverStart(n)
    \/ WorkerTake
    \/ \E i \in 1..MaxSubs, kind \in TaskEnds : WorkerFinish(i, kind)
    \/ DeliverExit

SpecPool == InitPool /\ [][NextPool]_vars

\* Calls of start(), stop() and manual_poll(), one after the other.
InitSched == InitPoll

NextSched == Start \/ Stop \/ \E outcome \in ModifyOutcomes : ManualPoll(outcome)

SpecSched == InitSched /\ [][NextSched]_vars

\* The service's life: start(), stop() and manual_poll() are called while the
\* scheduler's threads run poll ticks and cleanup ticks.
InitLife == InitPoll

\* add_job leaves max_instances at the scheduler's default of one: the poll
\* job runs in one thread of the pool at a time.
PollInstances == {"t1"}

\* A step of a poll tick under way.
TickStep(t) ==
    \/ \E batch \in {<<>>, <<CandA>>} : Fetch(t, batch)
    \/ FetchFails(t)
    \/ Process(t)
    \/ Finally(t)
    \/ JobAfter(t)
    \/ JobExcept(t)

NextLife ==
    \/ Start
    \/ Stop
    \/ \E outcome \in ModifyOutcomes : ManualPoll(outcome)
    \/ \E t \in PollInstances : PollTick(t)
    \/ \E t \in PollInstances : TickStep(t)
    \/ CleanupTick
    \/ \E f \in CleanupFailures : CleanupTickFails(f)

SpecLife == InitLife /\ [][NextLife]_vars

\* A stored session: never accessed (a row older than the column), or last
\* accessed the TTL before the first day, or a day later.
StoredTokens ==
    {NeverAccessed, AccessedAt(0 - AUTH_TOKEN_TTL_DAYS), AccessedAt(1 - AUTH_TOKEN_TTL_DAYS)}

\* A started service over a database of two posts with a notification each:
\* the first is in the inbox of both users, the second in that of u1.  The
\* first expires on the first day or the next, the second on the next or after
\* the last.
InitStore ==
    /\ PollInit
    /\ TickInit
    /\ PoolInit
    /\ LimInit
    /\ scheduler_running = TRUE
    /\ jobs = {PollJob, CleanupJob(1)}
    /\ job_seq = 1
    /\ forced = FALSE
    /\ history = <<"start">>
    /\ posts = AddPostsBulk(<<>>, <<CandA, CandB>>).posts
    /\ notifications = [i \in {1, 2} |->
                           NotificationRow(IF i = 1 THEN CandA ELSE CandB, i)]
    /\ notification_seq = 2
    /\ \E seen \in BOOLEAN :
          user_notifications =
             AddUserNotificationsBulk(
                {[user_id |-> "u2", notification_id |-> 1, is_read |-> seen]}, 2, {"u1"})
             \cup AddUserNotificationsBulk({}, 1, {"u1"})
    /\ read_at = [k \in {<<r.user_id, r.notification_id>> :
                            r \in {x \in user_notifications : x.is_read}} |-> 0]
    /\ push_subscriptions = <<>>
    /\ notification_settings = <<>>
    /\ notification_keywords = [u \in Users |-> {}]
    /\ keywords = {}
    /\ attempts = {}
    /\ returned = [op |-> "init"]
    /\ clock = 0
    /\ \E first \in {0, 1}, second \in {1, MaxClock + 1} :
          expires_at = <<first, second>>
    /\ auth_tokens \in [Sessions -> StoredTokens]
    /\ in_transaction = FALSE
    /\ cpn = NoCall

NextStore ==
    \/ \E u \in Users, ids \in SUBSET (1..notification_seq) :
          MarkNotificationsReadCall(u, ids)
    \/ \E u \in Users, id \in 1..notification_seq : MarkUserNotificationReadCall(u, id)
    \/ \E u \in Users : MarkAllUserNotificationsReadCall(u)
    \/ \E k \in Sessions, storing \in BOOLEAN : TouchToken(k, storing)
    \/ Advance
    \/ CleanupTick
    \/ \E f \in CleanupFailures : CleanupTickFails(f)

SpecStore == InitStore /\ [][NextStore]_vars

\* Users save their settings while posts are fanned out: a database with the
\* posts and two subscribed users, no settings stored yet.
InitSettings ==
    /\ PollInit
    /\ TickInit
    /\ AuxInit
    /\ posts = FanoutPosts
    /\ notifications = <<>>
    /\ notification_seq = 0
    /\ user_notifications = {}
    /\ push_subscriptions =
          [e \in Endpoints |->
              [user_key |-> IF e = "e1" THEN "u1" ELSE "u2",
               device_id |-> DeviceIdOf(e), is_active |-> TRUE]]
    /\ notification_settings = <<>>
    /\ notification_keywords = [u \in Users |-> {}]
    /\ keywords = {}
    /\ attempts = {}
    /\ returned = [op |-> "init"]

NextSettings ==
    \/ \E u \in Users, p \in SettingsInputs : UpdateSettingsCall(u, p)
    \/ \E id \in DOMAIN posts : FanOut(id)

SpecSettings == InitSettings /\ [][NextSettings]_vars

\* A fan-out in the scheduler's thread among the requests of two users, the
\* first subscribed, neither with stored settings.
InitRace ==
    /\ PollInit
    /\ TickInit
    /\ AuxInit
    /\ posts = FanoutPosts
    /\ notifications = <<>>
    /\ notification_seq = 0
    /\ user_notifications = {}
    /\ push_subscriptions =
          [e \in {"e1"} |->
              [user_key |-> "u1", device_id |-> DeviceIdOf(e), is_active |-> TRUE]]
    /\ notification_settings = <<>>
    /\ notification_keywords = [u \in Users |-> {}]
    /\ keywords = {}
    /\ attempts = {}
    /\ returned = [op |-> "init"]

NextRace ==
    \/ \E id \in DOMAIN posts : CpnRecord(id)
    \/ CpnDeliver
    \/ \E u \in Users, e \in Endpoints : Subscribe(u, e)
    \/ \E e \in Endpoints : Unsubscribe(e)
    \/ \E u \in Users :
          \E p \in {GoodInput(SettingsOptOut, <<>>), GoodInput(SettingsLocA, <<>>)} :
             UpdateSettingsCall(u, p)

SpecRace == InitRace /\ [][NextRace]_vars

\* Ingestions and settings updates on the one connection of the storage.
InitTx ==
    /\ PollInit
    /\ TickInit
    /\ AuxInit
    /\ posts = <<>>
    /\ notifications = <<>>
    /\ notification_seq = 0
    /\ user_notifications = {}
    /\ push_subscriptions = <<>>
    /\ notification_settings = <<>>
    /\ notification_keywords = [u \in Users |-> {}]
    /\ keywords = {}
    /\ attempts = {}
    /\ returned = [op |-> "init"]

NextTx ==
    \/ \E batch \in TxBatches, fault \in Faults : AddPostsBulkCall(batch, fault)
    \/ \E u \in Users :
          \E p \in {GoodInput(SettingsOptOut, <<>>), GoodInput(SettingsKeyword, <<KwFir>>),
                    GoodInput(SettingsKeyword, <<KwGood, KwBad>>)} :
             UpdateSettingsCall(u, p)

SpecTx == InitTx /\ [][NextTx]_vars

\* Poll ticks of two scheduler threads that fail at any statement, and the
\* status route.
InitCycle == InitPoll

CycleBatches == {<<>>, <<CandA>>, <<CandUrgent, CandB>>}

NextCycle ==
    \/ \E t \in Threads : PollOnceEnter(t)
    \/ \E t \in Threads, batch \in CycleBatches : Fetch(t, batch)
    \/ \E t \in Threads : FetchFails(t)
    \/ \E t \in Threads : ParseFails(t)
    \/ \E t \in Threads : Process(t)
    \/ \E t \in Threads : ProcessFailsOnPosts(t)
    \/ \E t \in Threads : Finally(t)
    \/ \E t \in Threads : JobAfter(t)
    \/ \E t \in Threads : JobExcept(t)
    \/ \E t \in Threads : JobEscapes(t)
    \/ GetStatus

SpecCycle == InitCycle /\ [][NextCycle]_vars

\* Poll ticks over a page that keeps showing the same posts, while
\* add_notification can fail.
InitRetry == InitPoll

RetryBatches == {<<CandA>>, <<CandUrgent, CandB>>}

NextRetry ==
    \/ \E t \in Threads : PollOnceEnter(t)
    \/ \E t \in Threads : PollOnceEnterAgain(t)
    \/ \E t \in Threads, batch \in RetryBatches : Fetch(t, batch)
    \/ \E t \in Threads : Process(t)
    \/ \E t \in Threads : \E k \in 1..Len(parsed[t]) : ProcessFailsOnNotification(t, k)
    \/ \E t \in Threads : Finally(t)
    \/ \E t \in Threads : JobAfter(t)
    \/ \E t \in Threads : JobEscapes(t)

SpecRetry == InitRetry /\ [][NextRetry]_vars

\* The scheduler keeps firing the interval job and its threads keep running.
FairSpecRetry ==
    /\ SpecRetry
    /\ \A t \in Threads :
          /\ WF_vars(PollOnceEnter(t) \/ PollOnceEnterAgain(t))
          /\ WF_vars(\E batch \in RetryBatches : Fetch(t, batch))
          /\ WF_vars(Finally(t))
          /\ WF_vars(JobEscapes(t))

\* Rows an existing notification_settings table can hold for a user: none,
\* an object with one field, an object with two, a blob json.loads rejects.
StoredPrefs ==
    {[stored |-> FALSE, settings |-> EmptyObj],
     [stored |-> TRUE, settings |-> [language |-> "sv"]],
     [stored |-> TRUE, settings |-> [pushNotifications |-> FALSE, updateInterval |-> 30]],
     [stored |-> TRUE, settings |-> MalformedBlob]}

\* Bodies the settings page posts: every field set away from its default, a
\* body without keywords, and one the validation rejects.
PrefInputs ==
    {[GoodInput(SettingsOptOut, <<KwFir, Cafe, KwFir>>) EXCEPT
         !.language = "hu", !.updateInterval = 15],
     GoodInput(SettingsLocA, <<>>),
     GoodInput(SettingsKeyword, <<KwFir>>),
     [GoodInput(SettingsLocA, <<>>) EXCEPT !.language = "de"]}

\* Users read and save their settings.
InitPrefs ==
    /\ PollInit
    /\ TickInit
    /\ AuxInit
    /\ posts = <<>>
    /\ notifications = <<>>
    /\ notification_seq = 0
    /\ user_notifications = {}
    /\ push_subscriptions = <<>>
    /\ \E prof \in [Users -> StoredPrefs] :
          notification_settings =
             [u \in {x \in Users : prof[x].stored} |-> prof[u].settings]
    /\ \E kws \in {{}, {Fire}} :
          /\ notification_keywords = [u \in Users |-> IF u = "u2" THEN kws ELSE {}]
          /\ keywords = kws
    /\ attempts = {}
    /\ returned = [op |-> "init"]

NextPrefs ==
    \/ \E u \in Users, p \in PrefInputs : UpdateSettingsCall(u, p)
    \/ \E u \in Users : GetSettingsCall(u)

SpecPrefs == InitPrefs /\ [][NextPrefs]_vars

\* Post contents of every length up to the bound: the digits of the
\* positions, or dots throughout.
Digits == <<"0", "1", "2", "3", "4", "5", "6", "7", "8", "9">>

ContentOf(n, filler) ==
    [i \in 1..n |-> IF filler = "digits" THEN Digits[(i % 10) + 1] ELSE "."]

Contents == {ContentOf(n, filler) : n \in 1..MaxContentLen, filler \in {"digits", "dots"}}

\* One stored post of any content, one subscribed user, no settings.
InitMessage ==
    /\ PollInit
    /\ TickInit
    /\ AuxInit
    /\ \E content \in Contents, urgent \in BOOLEAN :
          posts = [id \in {"c1"} |->
                     [title |-> Fire, content |-> content, location |-> "A",
                      is_urgent |-> urgent, likes |-> 0, has_image |-> FALSE]]
    /\ notifications = <<>>
    /\ notification_seq = 0
    /\ user_notifications = {}
    /\ push_subscriptions =
          [e \in {"e1"} |->
              [user_key |-> "u1", device_id |-> DeviceIdOf(e), is_active |-> TRUE]]
    /\ notification_settings = <<>>
    /\ notification_keywords = [u \in Users |-> {}]
    /\ keywords = {}
    /\ attempts = {}
    /\ returned = [op |-> "init"]

NextMessage == \E id \in DOMAIN posts : FanOut(id)

SpecMessage == InitMessage /\ [][NextMessage]_vars

\* ------------------------------------------------ the inbox over its life

\* create_post_notification called with a stored post while AUTOINCREMENT has
\* ids left, every webpush() call succeeding.
InboxFanOut(id) ==
    /\ ~in_transaction
    /\ id \in DOMAIN posts
    /\ notification_seq < MaxInbox
    /\ LET post == PostOf(DB, id)
           r == CreatePostNotification(
                   Fresh, post, [e \in SubmittedFor(DB, post) |-> OkOutcome])
       IN /\ Store(r.db)
          /\ returned' = [op |-> "create_post_notification", post_id |-> id,
                          value |-> r.ret]
    /\ UNCHANGED <<pollvars, tickvars, auxvars>>

\* A started service whose database holds three posts and the notifications
\* of two of them: the first is in the inbox of both users, the second in that
\* of u1, who has read it; u2 may have read the first.  u1 holds a subscription
\* and u2 has stored settings.  The first notification has expired or
\* expires after the last day, as the second does.
InitInbox ==
    /\ PollInit
    /\ TickInit
    /\ PoolInit
    /\ LimInit
    /\ scheduler_running = TRUE
    /\ jobs = {PollJob, CleanupJob(1)}
    /\ job_seq = 1
    /\ forced = FALSE
    /\ history = <<"start">>
    /\ posts = AddPostsBulk(<<>>, <<CandA, CandB, CandUrgent>>).posts
    /\ notifications = [i \in {1, 2} |->
                           NotificationRow(IF i = 1 THEN CandA ELSE CandB, i)]
    /\ notification_seq = 2
    /\ \E seen \in BOOLEAN :
          user_notifications =
             {[user_id |-> "u1", notification_id |-> 1, is_read |-> FALSE],
              [user_id |-> "u2", notification_id |-> 1, is_read |-> seen],
              [user_id |-> "u1", notification_id |-> 2, is_read |-> TRUE]}
    /\ read_at = [k \in {<<r.user_id, r.notification_id>> :
                            r \in {x \in user_notifications : x.is_read}} |-> 0]
    /\ push_subscriptions =
          [e \in {"e1"} |->
              [user_key |-> "u1", device_id |-> DeviceIdOf(e), is_active |-> TRUE]]
    /\ notification_settings = [u \in {"u2"} |-> SettingsLocA]
    /\ notification_keywords = [u \in Users |-> {}]
    /\ keywords = {}
    /\ attempts = {}
    /\ returned = [op |-> "init"]
    /\ clock = 0
    /\ \E first \in {0, MaxClock + 1} : expires_at = <<first, MaxClock + 1>>
    /\ auth_tokens = <<>>
    /\ in_transaction = FALSE
    /\ cpn = NoCall

NextInbox ==
    \/ \E id \in DOMAIN posts : InboxFanOut(id)
    \/ \E u \in Users, ids \in SUBSET (1..notification_seq) :
          MarkNotificationsReadCall(u, ids)
    \/ \E u \in Users, id \in 1..notification_seq : MarkUserNotificationReadCall(u, id)
    \/ \E u \in Users : MarkAllUserNotificationsReadCall(u)
    \/ CleanupTick

SpecInbox == InitInbox /\ [][NextInbox]_vars

\* The callers of one rate-limited function on a quiet service.
InitLimiter == InitPoll

NextLimiter ==
    \/ \E c \in Callers : Call(c)
    \/ \E c \in Callers : Enter(c)
    \/ \E c \in Callers : Wake(c)
    \/ \E c \in Callers : Invoke(c)
    \/ Tick

SpecLimiter == InitLimiter /\ [][NextLimiter]_vars

\* The threads are scheduled fairly and time advances.
FairSpecLimiter ==
    /\ SpecLimiter
    /\ WF_vars(Tick)
    /\ \A c \in Callers : WF_vars(Enter(c)) /\ WF_vars(Wake(c)) /\ WF_vars(Invoke(c))

\* ------------------------------------------------------------------ claims

\* The positions of _poll_once between setting and clearing the flag.
InFlightPcs == {"fetch", "process", "finally"}

InFlight == {t \in Threads : pc[t] \in InFlightPcs}

\* A step in which thread t calls _poll_once while another call is in flight.
RejectedCall(t) == pc[t] = "idle" /\ pc'[t] # "idle" /\ _is_polling

\* C1: at most one _poll_once call is ever between setting and clearing the
\* in-flight flag; a call that starts while another is in flight returns the
\* empty list at once, without fetching and without writing to storage, and
\* the flag is only ever cleared by the call that set it.
C1_AtMostOnePollInFlight ==
    [][/\ Cardinality(InFlight') <= 1
       /\ \A t \in Threads :
             RejectedCall(t) =>
                /\ pc'[t] = "after"
                /\ new_posts'[t] = <<>>
                /\ _is_polling'
                /\ UNCHANGED <<dbvars, attempts, _last_poll_time>>
       /\ (_is_polling /\ ~_is_polling') =>
             \E t \in InFlight : pc[t] = "finally" /\ pc'[t] \notin InFlightPcs
      ]_vars

\* One call is in flight and a second call has come back with the empty list.
C1_Witness ==
    \E t, u \in Threads :
        /\ t # u
        /\ pc[t] \in InFlightPcs
        /\ pc[u] = "after"
        /\ new_posts[u] = <<>>
        /\ _is_polling

\* Notification rows a tick of thread t has added for a post id.
RowsOfTick(t, post_id, table) ==
    {n \in DOMAIN table : n > tick_base[t] /\ table[n].post_id = post_id}

\* webpush() calls a tick of thread t has made for a post id to one endpoint.
AttemptsOfTick(t, post_id, endpoint, log) ==
    {a \in log : /\ a.notification_id > tick_base[t]
                 /\ a.post_id = post_id
                 /\ a.endpoint = endpoint}

\* The step in which thread t's poll tick ends successfully.
TickEnds(t) == pc[t] = "after" /\ pc'[t] = "idle"

\* C2: when a poll tick ends successfully, every post that ingestion newly
\* inserted has exactly one Notification row from that tick, and no
\* subscription was sent more than one delivery for it.
C2_EachNewPostNotifiedOnce ==
    [][\A t \in Threads :
          TickEnds(t) =>
             \A i \in DOMAIN new_posts[t] :
                LET post_id == new_posts[t][i].id
                IN (\A j \in DOMAIN new_posts[t] :
                       new_posts[t][j].id = post_id => j = i) =>
                      /\ Cardinality(RowsOfTick(t, post_id, notifications')) = 1
                      /\ \A e \in Endpoints :
                            Cardinality(AttemptsOfTick(t, post_id, e, attempts')) <= 1
      ]_vars

\* The step in which thread t's _poll_once runs _process_posts.
IngestStep(t) == pc[t] = "process" /\ pc'[t] = "finally" /\ raised'[t] = NULL

\* The table holds a row with the post's id, title and content.
StoredWithSameText(tbl, post) ==
    /\ post.id \in DOMAIN tbl
    /\ tbl[post.id].title = post.title
    /\ tbl[post.id].content = post.content

SameText(p, q) == p.title = q.title /\ p.content = q.content

\* Candidates of a batch that share an id agree in title and content.
ConflictFree(batch) ==
    \A i, j \in DOMAIN batch : batch[i].id = batch[j].id => SameText(batch[i], batch[j])

\* C3 as stated: ingesting the parser output that was ingested last returns the
\* empty list and creates no further notification.
C3_SameOutputTwiceReturnsNothing ==
    [][\A t \in Threads :
          (IngestStep(t) /\ parsed[t] = last_ingested) =>
             /\ new_posts'[t] = <<>>
             /\ notifications' = notifications
      ]_vars

\* C3, amended: in a batch whose candidates of one id agree in title and
\* content, a candidate stored with the same id, title and content is a no-op
\* whatever its likes and image fields: its row is unchanged and it is not in
\* the returned delta; when every candidate is such, no row is added and no
\* notification created; ingesting such a batch a second time returns the
\* empty list and creates nothing.
C3_ReingestIsNoOp ==
    [][\A t \in Threads :
          (IngestStep(t) /\ ConflictFree(parsed[t])) =>
             /\ \A i \in DOMAIN parsed[t] :
                   StoredWithSameText(posts, parsed[t][i]) =>
                      /\ posts'[parsed[t][i].id] = posts[parsed[t][i].id]
                      /\ \A k \in DOMAIN new_posts'[t] :
                            new_posts'[t][k].id # parsed[t][i].id
             /\ (\A i \in DOMAIN parsed[t] : StoredWithSameText(posts, parsed[t][i])) =>
                   /\ posts' = posts
                   /\ new_posts'[t] = <<>>
                   /\ notifications' = notifications
                   /\ attempts' = attempts
             /\ parsed[t] = last_ingested =>
                   /\ posts' = posts
                   /\ new_posts'[t] = <<>>
                   /\ notifications' = notifications
                   /\ attempts' = attempts
      ]_vars

\* A tick has ingested a candidate whose likes differ from the stored row's,
\* kept the row and returned nothing.
C3_Witness ==
    \E t \in Threads :
        /\ pc[t] = "finally"
        /\ parsed[t] # <<>>
        /\ new_posts[t] = <<>>
        /\ notification_seq = tick_base[t]
        /\ \E i \in DOMAIN parsed[t] :
              /\ parsed[t][i].id \in DOMAIN posts
              /\ posts[parsed[t][i].id].likes # parsed[t][i].likes

\* The candidates add_posts_bulk has to return: those that differ in title or
\* content from the row their id has when they are reached, which is the
\* latest earlier candidate of that id or else the row stored before the call.
Kept(tbl, batch) ==
    {i \in DOMAIN batch :
        LET earlier == {j \in 1..(i - 1) : batch[j].id = batch[i].id}
        IN IF earlier = {}
           THEN ~StoredWithSameText(tbl, batch[i])
           ELSE LET j == CHOOSE x \in earlier : \A y \in earlier : y <= x
                IN ~SameText(batch[j], batch[i])}

\* The candidates at the indices of S, in the order of the batch.
Selected(batch, S) ==
    [k \in 1..Cardinality(S) |->
        batch[CHOOSE i \in S : Cardinality({j \in S : j <= i}) = k]]

\* Times a post occurs in a list.
Occurrences(list, post) == Cardinality({k \in DOMAIN list : list[k] = post})

PostCall ==
    /\ returned'.op = "create_post_notification"
    /\ notification_seq' = notification_seq + 1

\* The post the step's call was given.
CalledPost == posts[returned'.post_id]

\* The users the step has given a UserNotification row of the new notification.
NewRowUsers ==
    {r.user_id : r \in {x \in user_notifications' :
                           x.notification_id = notification_seq'}}

\* The users that own an active subscription.
SubscriptionOwners ==
    {push_subscriptions[e].user_key :
        e \in {x \in DOMAIN push_subscriptions :
                  /\ push_subscriptions[x].is_active
                  /\ push_subscriptions[x].user_key # NULL}}

\* C5: for an urgent post the users given a UserNotification row are the
\* owners of active subscriptions together with the users that have stored
\* settings, whatever their filters and the post's location.
C5_UrgentTargetsEveryone ==
    [][(PostCall /\ CalledPost.is_urgent) =>
          NewRowUsers = SubscriptionOwners \cup DOMAIN notification_settings
      ]_vars

\* The last call was for a post with this urgency.
LastCallWasPost(urgent) ==
    /\ returned.op = "create_post_notification"
    /\ posts[returned.post_id].is_urgent = urgent

\* The user has a row of the newest notification.
HasNewRow(u) ==
    [user_id |-> u, notification_id |-> notification_seq, is_read |-> FALSE]
        \in user_notifications

\* An urgent post has been recorded for a subscriber without settings and for
\* a user without subscription whose location filter excludes the post.
C5_Witness ==
    /\ LastCallWasPost(TRUE)
    /\ \E u, v \in Users :
          /\ u \in DOMAIN notification_settings
          /\ notification_settings[u] = SettingsLocA
          /\ posts[returned.post_id].location \notin SettingsLocA.locationFilter.locations
          /\ u \notin SubscriptionOwners
          /\ v \notin DOMAIN notification_settings
          /\ v \in SubscriptionOwners
          /\ HasNewRow(u)
          /\ HasNewRow(v)

\* The settings object stored for a user, {} when none is stored.
StoredObject(u) ==
    IF u \in DOMAIN notification_settings THEN notification_settings[u] ELSE EmptyObj

\* The user's location filter is off, explicitly or by default.
LocationFilterOff(u) ==
    ~Get(Get(StoredObject(u), "locationFilter", EmptyObj), "enabled", FALSE)

\* The user's keyword filter is off, explicitly or by default.
KeywordFilterOff(u) ==
    ~Get(Get(StoredObject(u), "keywordFilter", EmptyObj), "enabled", FALSE)

NoMalformedBlob ==
    \A u \in DOMAIN notification_settings : ~IsMalformed(notification_settings[u])

\* C6: for a non-urgent post every user whose location filter is off, stored
\* so or by default for lack of stored settings, is in the target set (the
\* keyword filter being off too and every stored blob being readable).
C6_LocationFilterOffIsTargeted ==
    [][(PostCall /\ ~CalledPost.is_urgent /\ NoMalformedBlob) =>
          \A u \in SubscriptionOwners \cup DOMAIN notification_settings :
             (LocationFilterOff(u) /\ KeywordFilterOff(u)) => u \in NewRowUsers
      ]_vars

\* The user's stored location filter is on with a list that lacks the location.
LocationFilterExcludes(u, location) ==
    /\ u \in DOMAIN notification_settings
    /\ ~IsMalformed(notification_settings[u])
    /\ "locationFilter" \in DOMAIN notification_settings[u]
    /\ notification_settings[u].locationFilter.enabled
    /\ notification_settings[u].locationFilter.locations # {}
    /\ location \notin notification_settings[u].locationFilter.locations

\* C7: for a non-urgent post with a location, a user whose location filter is
\* on with a non-empty list that lacks the location gets no UserNotification
\* row, and no subscription of that user gets a delivery attempt.
C7_LocationFilterExcludes ==
    [][(PostCall /\ ~CalledPost.is_urgent /\ CalledPost.location # "") =>
          \A u \in Users :
             LocationFilterExcludes(u, CalledPost.location) =>
                /\ u \notin NewRowUsers
                /\ \A a \in attempts' : a.user_key # u
      ]_vars

\* A non-urgent post was delivered to somebody while a subscriber whose filter
\* lacks its location got nothing.
C7_Witness ==
    /\ LastCallWasPost(FALSE)
    /\ attempts # {}
    /\ \E u \in SubscriptionOwners :
          /\ LocationFilterExcludes(u, posts[returned.post_id].location)
          /\ ~HasNewRow(u)
          /\ \A a \in attempts : a.user_key # u

\* C8: for a non-urgent post whose resolved target set is empty,
\* create_post_notification stores exactly one Notification row, no
\* UserNotification row, makes no delivery attempt and returns the stored
\* Notification.
C8_EmptyTargetSetStillRecords ==
    [][(/\ PostCall
        /\ ~CalledPost.is_urgent
        /\ GetFilteredUsersForPost(DB, PostOf(DB, returned'.post_id)) = {}) =>
          /\ DOMAIN notifications' = DOMAIN notifications \cup {notification_seq'}
          /\ notification_seq' \notin DOMAIN notifications
          /\ notifications'[notification_seq'].post_id = returned'.post_id
          /\ \A n \in DOMAIN notifications : notifications'[n] = notifications[n]
          /\ user_notifications' = user_notifications
          /\ attempts' = {}
          /\ returned'.value.kind = "notification"
          /\ returned'.value.notification = notifications'[notification_seq']
      ]_vars

\* A non-urgent post matched nobody although a user with settings subscribes.
C8_Witness ==
    /\ LastCallWasPost(FALSE)
    /\ returned.value.kind = "notification"
    /\ returned.value.notification.id = notification_seq
    /\ notification_seq \in DOMAIN notifications
    /\ ~\E u \in Users : HasNewRow(u)
    /\ attempts = {}
    /\ SubscriptionOwners \cap DOMAIN notification_settings # {}

\* C9: once a delivery attempt failed with a permanent code, answered by a
\* response object that counts as true, the subscription is no longer stored,
\* whatever its device_id or owner.
C9_PermanentFailureRemoves ==
    \A a \in attempts :
       (/\ a.outcome.kind = "WebPushException"
        /\ a.outcome.truthy
        /\ a.outcome.status \in {400, 404, 410, 413}) =>
          a.endpoint \notin DOMAIN push_subscriptions

\* A step made by an operation that fans out.
FanoutCall ==
    returned'.op \in {"create_post_notification", "create_test_notification"}

\* pushNotifications is stored as false for the user.
OptedOut(u) ==
    /\ u \in DOMAIN notification_settings
    /\ "pushNotifications" \in DOMAIN notification_settings[u]
    /\ notification_settings[u].pushNotifications = FALSE

\* No settings are stored for the user, or settings without pushNotifications.
NoStoredChoice(u) ==
    \/ u \notin DOMAIN notification_settings
    \/ /\ ~IsMalformed(notification_settings[u])
       /\ "pushNotifications" \notin DOMAIN notification_settings[u]

\* The step's operation addresses the user: every owner for an urgent post and
\* for the test notification, the resolved targets for a non-urgent post.
Addressed(u) ==
    \/ returned'.op = "create_test_notification"
    \/ PostCall /\ CalledPost.is_urgent
    \/ PostCall /\ u \in NewRowUsers

\* C10: no operation makes a delivery attempt to a subscription whose owner
\* has stored pushNotifications false, for urgent posts, non-urgent posts and
\* the test notification; an addressed owner without stored settings, or with
\* settings that lack pushNotifications, gets an attempt on every active
\* subscription.
C10_OptOutIsHonoured ==
    [][FanoutCall =>
          /\ \A a \in attempts' : ~OptedOut(a.user_key)
          /\ \A e \in DOMAIN push_subscriptions :
                LET u == push_subscriptions[e].user_key
                IN (/\ u # NULL
                    /\ push_subscriptions[e].is_active
                    /\ NoStoredChoice(u)
                    /\ Addressed(u)) =>
                      \E a \in attempts' : a.endpoint = e /\ a.user_key = u
      ]_vars

\* An urgent post went to a subscriber without settings and not to a
\* subscriber who opted out.
C10_Witness ==
    /\ LastCallWasPost(TRUE)
    /\ \E e, f \in DOMAIN push_subscriptions :
          /\ push_subscriptions[e].user_key # NULL
          /\ OptedOut(push_subscriptions[e].user_key)
          /\ \A a \in attempts : a.endpoint # e
          /\ push_subscriptions[f].user_key # NULL
          /\ push_subscriptions[f].user_key \notin DOMAIN notification_settings
          /\ \E a \in attempts : a.endpoint = f

\* C11: for every number n >= 0 of filtered subscriptions the delivery
\* completes normally, with one attempt per subscription and never more than
\* min(10, n) attempts running at once.
C11_DeliverCompletesForEveryCount ==
    /\ pool_state # "raised"
    /\ Cardinality(running) <= Min(POOL_CAP, pool_n)
    /\ pool_state = "completed" => started = pool_n /\ running = {}

\* C17: no failure of a single attempt keeps the other attempts of a delivery
\* from being made or leaves the delivery: a delivery of one subscription or
\* more is never left by an exception, and when its with block ends every
\* work item has been run, whatever the others ended with.
C17_FailedAttemptStaysInside ==
    /\ pool_n >= 1 => pool_state # "raised"
    /\ pool_state = "completed" => started = pool_n /\ running = {}
    /\ pool_state = "open" /\ failures # {} /\ started < pool_n
          /\ Cardinality(running) < max_workers => ENABLED WorkerTake

\* A delivery of several subscriptions completed although attempts failed in
\* each of the three ways.
C17_Witness ==
    /\ pool_state = "completed"
    /\ pool_n >= 3
    /\ started = pool_n
    /\ failures = {"invalid", "transport", "storage"}

\* C12: whenever create_post_notification has stored the Notification row of
\* a post, it returns that Notification, with the id storage assigned, the
\* post's title and its truncated content, and not the fallback object; also
\* when no subscription is left to deliver to.
C12_PersistedRowIsReturned ==
    [][PostCall =>
          /\ returned'.value.kind = "notification"
          /\ returned'.value.notification = notifications'[notification_seq']
          /\ returned'.value.notification.id = notification_seq'
          /\ returned'.value.notification.message = Truncate(CalledPost.content)
      ]_vars

\* The stored settings that json.loads accepts.
ReadableSettings ==
    [u \in {x \in DOMAIN notification_settings :
                ~IsMalformed(notification_settings[x])} |-> notification_settings[u]]

\* The users with readable settings that pass the location and keyword rules.
PassingUsers(post) ==
    IF FilterByLocation(post, ReadableSettings) = {}
    THEN {}
    ELSE FilterByKeywords(post, FilterByLocation(post, ReadableSettings),
                          ReadableSettings, notification_keywords)

\* C16: when a user's stored settings blob is malformed, a non-urgent post
\* still reaches every other user that passes the location and keyword rules:
\* the user gets a UserNotification row and, unless opted out, a delivery
\* attempt on every active subscription.
C16_MalformedBlobSparesOthers ==
    [][(PostCall /\ ~CalledPost.is_urgent /\ ~NoMalformedBlob) =>
          \A u \in PassingUsers(PostOf(DB, returned'.post_id)) :
             /\ u \in NewRowUsers
             /\ \A e \in DOMAIN push_subscriptions :
                   (/\ push_subscriptions[e].user_key = u
                    /\ push_subscriptions[e].is_active
                    /\ ~OptedOut(u)) => \E a \in attempts' : a.endpoint = e
      ]_vars

\* C13: a storage failure while create_post_notification persists its rows
\* does not reach the caller: no exception leaves _process_posts from there,
\* and the posts that were added are all returned.
C13_StorageFailureIsContained ==
    [][\A t \in Threads :
          (pc[t] = "process" /\ pc'[t] = "finally" /\ posts' # posts) =>
             /\ raised'[t] = NULL
             /\ new_posts'[t] = AddPostsBulk(posts, parsed[t]).updated
      ]_vars

\* C14: every failure of a poll tick, fetch error or storage error, is caught
\* inside the tick and recorded in _last_error, which is then non-empty; no
\* exception leaves the tick.
C14_EveryFailureIsRecorded ==
    [][\A t \in Threads :
          (pc[t] = "except" /\ pc'[t] = "idle") =>
             /\ ~escaped'
             /\ _last_error' = raised[t]
             /\ _last_error' \notin {NULL, ""}
      ]_vars

\* What holds of every tick's fetch: get_content() is called once, on the way
\* in; a failed call ends _poll_once without touching storage; the handler
\* records the error and the tick ends; a tick that ends without an exception
\* clears _last_error.
OneFetchCallPerTick(t) ==
    /\ (pc'[t] = "fetch" /\ pc[t] # "fetch") => pc[t] = "idle"
    /\ (pc[t] = "fetch" /\ raised'[t] = "HTTPClientError") =>
          pc'[t] = "finally" /\ UNCHANGED dbvars
    /\ (pc[t] = "except" /\ raised[t] = "HTTPClientError" /\ pc'[t] # "except") =>
          pc'[t] = "idle" /\ _last_error' = "HTTPClientError" /\ UNCHANGED dbvars
    /\ (pc[t] = "after" /\ pc'[t] = "idle") => _last_error' = ""

PermittedInWindow(t) ==
    {i \in DOMAIN permitted : permitted[i] > t - LimitPeriod /\ permitted[i] <= t}

\* C18: at every time t the number of calls let through in the rolling
\* window (t - period, t] is at most the limit.
C18_RollingWindowHoldsLimit ==
    \A t \in 0..now : Cardinality(PermittedInWindow(t)) <= LimitCalls

\* C19: the rate limiter drops no call: with fair scheduling and advancing
\* time every call of the wrapper, also one that waits for the lock while
\* its holder sleeps, leads to the wrapped function being invoked, once for
\* each call.
C19_EveryCallIsInvokedOnce ==
    /\ \A c \in Callers : \A n \in 1..MaxCalls :
          (called[c] = n) ~> (invoked[c] = n)
    /\ [](\A c \in Callers :
            /\ invoked[c] <= called[c]
            /\ called[c] <= invoked[c] + 1
            /\ wpc[c] = "out" => invoked[c] = called[c])

\* A caller has been invoked after waiting for the lock while another caller,
\* which has been invoked as well, slept holding it.
C19_Witness ==
    \E c, o \in Callers :
       /\ c # o
       /\ called[c] = MaxCalls /\ invoked[c] = MaxCalls
       /\ called[o] = MaxCalls /\ invoked[o] = MaxCalls
       /\ Len(permitted) = 2 * MaxCalls
       /\ permitted[Len(permitted) - 1] > MaxTime
       /\ permitted[Len(permitted)] > MaxTime

\* The registered jobs that run this function.
JobsOf(func) == {j \in jobs : j.func = func}

\* C20: start() on a running scheduler changes nothing; otherwise it
\* registers the poll job and the cleanup job and the scheduler is running
\* afterwards.  After any sequence of start(), stop() and manual_poll() calls
\* at most one poll job and at most one cleanup job are registered.
C20_StartIsIdempotent ==
    /\ [][history' = Append(history, "start") =>
             IF scheduler_running
             THEN UNCHANGED <<scheduler_running, jobs, job_seq, forced>>
             ELSE /\ scheduler_running'
                  /\ \E j \in jobs' : j.func = "_poll_job" /\ j \notin jobs
                  /\ \E j \in jobs' : j.func = "_cleanup_job" /\ j \notin jobs
         ]_vars
    /\ [](/\ Cardinality(JobsOf("_poll_job")) <= 1
          /\ Cardinality(JobsOf("_cleanup_job")) <= 1)

\* The service was started, started again while running, stopped and started
\* once more: one poll job and one cleanup job are registered.
C20_Witness ==
    /\ history = <<"start", "start", "stop", "start">>
    /\ scheduler_running
    /\ Cardinality(JobsOf("_poll_job")) = 1
    /\ Cardinality(JobsOf("_cleanup_job")) = 1

\* A call of the scheduler interface returns in this step: the one named.
InterfaceStep(name) ==
    /\ Len(history') = Len(history) + 1
    /\ history'[Len(history')] = name

\* A cleanup tick runs in this step.
CleanupStep ==
    /\ returned' # returned
    /\ returned'.op = "_cleanup_job"

C22_ManualPollOnlyReschedules ==
    [][InterfaceStep("manual_poll") =>
          /\ UNCHANGED <<jobs, job_seq, scheduler_running, dbvars, attempts, ticks, pc,
                         _is_polling, _last_poll_time, latevars>>
          /\ returned' = [op |-> "manual_poll", value |-> NULL]
          /\ IF PollJob \in jobs
             THEN \/ forced' /\ UNCHANGED _last_error
                  \/ _last_error' \in ModifyOutcomes \ {"ok"} /\ UNCHANGED forced
             ELSE UNCHANGED <<forced, _last_error>>]_vars

\* manual_poll() was called with the job registered and again after stop().
C22_Witness ==
    /\ history = <<"start", "manual_poll", "stop", "manual_poll">>
    /\ jobs = {}
    /\ ~forced
    /\ returned = [op |-> "manual_poll", value |-> NULL]

\* C23: a call of manual_poll() that schedules no poll, for want of the job or
\* because rescheduling failed, returns a value or leaves an error in
\* _last_error.
C23_UnscheduledPollIsReported ==
    [][(InterfaceStep("manual_poll") /\ ~(PollJob \in jobs /\ forced')) =>
          \/ returned'.value # NULL
          \/ _last_error' \notin {NULL, ""}]_vars

\* The registered jobs that run the function named.
RegisteredFor(store, func) == {j \in store : j.func = func}

\* C29: a cleanup tick that fails, with an exception _cleanup_job names or
\* with a storage error, leaves the scheduler running with the poll job and
\* the cleanup job registered and dispatchable, and changes neither
\* _last_poll_time nor _last_error nor _is_polling nor a poll tick's position.
C29_FailedCleanupIsIsolated ==
    [][(CleanupStep /\ "raised" \in DOMAIN returned') =>
          /\ UNCHANGED <<scheduler_running, jobs, _last_poll_time, _last_error,
                         _is_polling, pc, ticks>>
          /\ SchedulerDispatches(scheduler_running', jobs', PollJob)
          /\ \E j \in RegisteredFor(jobs', "_cleanup_job") :
                SchedulerDispatches(scheduler_running', jobs', j)]_vars

\* A cleanup tick has failed on storage while a poll tick, begun after an
\* earlier tick recorded its error, is fetching.
C29_Witness ==
    /\ returned = [op |-> "_cleanup_job", raised |-> "DatabaseError"]
    /\ scheduler_running
    /\ _last_error = "HTTPClientError"
    /\ \E t \in PollInstances : pc[t] = "fetch"

\* C28: after a cleanup tick whose two deletions succeeded, no notification
\* that has expired is stored, every user row has its notification, and no
\* session with a recorded last access older than the TTL is stored; the
\* notifications that have not expired, their user rows and the read marks of
\* those rows are as before.
C28_CleanupRemovesExactlyTheExpired ==
    [][CleanupTick =>
          /\ \A i \in DOMAIN notifications' : expires_at'[i] > clock'
          /\ \A r \in user_notifications' : r.notification_id \in DOMAIN notifications'
          /\ \A k \in DOMAIN auth_tokens' :
                auth_tokens'[k].accessed =>
                   auth_tokens'[k].last_accessed >= clock' - AUTH_TOKEN_TTL_DAYS
          /\ \A i \in DOMAIN notifications :
                expires_at[i] > clock =>
                   /\ i \in DOMAIN notifications'
                   /\ notifications'[i] = notifications[i]
                   /\ expires_at'[i] = expires_at[i]
                   /\ {r \in user_notifications' : r.notification_id = i}
                         = {r \in user_notifications : r.notification_id = i}
                   /\ \A k \in DOMAIN read_at :
                         k[2] = i => k \in DOMAIN read_at' /\ read_at'[k] = read_at[k]]_vars

\* A cleanup tick has removed the first notification, the rows of both users
\* for it and the session, and has kept the second notification with its row.
C28_Witness ==
    /\ returned = [op |-> "_cleanup_job", value |-> NULL]
    /\ DOMAIN notifications = {2}
    /\ user_notifications = {[user_id |-> "u1", notification_id |-> 2, is_read |-> TRUE]}
    /\ DOMAIN read_at = {<<"u1", 2>>}
    /\ auth_tokens = <<>>
    /\ clock = 1

\* The rows and read marks of every user but the one named are unchanged.
OthersUntouched(user_id) ==
    /\ {r \in user_notifications' : r.user_id # user_id}
          = {r \in user_notifications : r.user_id # user_id}
    /\ \A k \in DOMAIN read_at :
          k[1] # user_id => k \in DOMAIN read_at' /\ read_at'[k] = read_at[k]
    /\ \A k \in DOMAIN read_at' : k[1] # user_id => k \in DOMAIN read_at

\* C24: a single mark-read for a notification the user holds no row for
\* returns False and changes no row; a multi-id mark-read with an id the user
\* holds no row for raises and marks none; no mark-read call of a user changes
\* a row or a read mark of another user.
C24_MarkReadIsScopedToOwner ==
    [][\A u \in Users :
          /\ \A id \in 1..notification_seq :
                MarkUserNotificationReadCall(u, id) =>
                   /\ OthersUntouched(u)
                   /\ OwnedIds(user_notifications, u, {id}) = {} =>
                         /\ returned'.value = FALSE
                         /\ UNCHANGED <<user_notifications, read_at>>
          /\ \A ids \in SUBSET (1..notification_seq) :
                MarkNotificationsReadCall(u, ids) =>
                   /\ OthersUntouched(u)
                   /\ ids \ OwnedIds(user_notifications, u, ids) # {} =>
                         /\ "raised" \in DOMAIN returned'
                         /\ UNCHANGED <<user_notifications, read_at>>
          /\ MarkAllUserNotificationsReadCall(u) => OthersUntouched(u)]_vars

\* u2 asked to mark both notifications, holding a row for the first only: the
\* call raised and the row is still unread.
C24_Witness ==
    /\ returned = [op |-> "mark_notifications_read", user_id |-> "u2", ids |-> {1, 2},
                   raised |-> "DatabaseError"]
    /\ [user_id |-> "u2", notification_id |-> 1, is_read |-> FALSE] \in user_notifications
    /\ [user_id |-> "u1", notification_id |-> 2, is_read |-> FALSE] \in user_notifications

\* The user has no unread row.
AllRead(user_id) == \A r \in user_notifications : r.user_id = user_id => r.is_read

\* C25: a mark-all call returns without an error and leaves the user's unread
\* count at 0; a call made when the user has no unread row, as a second call
\* is, changes no row and no read mark.
C25_MarkAllIsIdempotent ==
    [][\A u \in Users :
          MarkAllUserNotificationsReadCall(u) =>
             /\ "value" \in DOMAIN returned'
             /\ GetUserNotificationCount(u)' = 0
             /\ AllRead(u)'
             /\ AllRead(u) => UNCHANGED <<user_notifications, read_at>>]_vars

\* A day after u1's rows were marked, a mark-all call of u1 found nothing to
\* mark: the read marks are those of the day before.
C25_Witness ==
    /\ returned = [op |-> "mark_all_user_notifications_read", user_id |-> "u1",
                   ids |-> {}, value |-> FALSE]
    /\ clock = 1
    /\ \E r \in user_notifications : r.user_id = "u1"
    /\ AllRead("u1")
    /\ \A k \in DOMAIN read_at : k[1] = "u1" => read_at[k] = 0

\* C26: a call of update_settings that returns False leaves the stored
\* settings, every user's keyword rows and the global vocabulary as they were.
C26_RejectedUpdateChangesNothing ==
    [][\A u \in Users, p \in SettingsInputs :
          (/\ UpdateSettingsCall(u, p)
           /\ "value" \in DOMAIN returned'
           /\ returned'.value = FALSE) =>
             UNCHANGED <<notification_settings, notification_keywords, keywords>>]_vars

\* The location rule as stated: the filter is disabled, or enabled with an
\* empty list, or the post has no location, or its location is in the list.
LocationRule(u, post) ==
    LET location_filter == Get(notification_settings[u], "locationFilter", EmptyObj)
    IN \/ ~Get(location_filter, "enabled", FALSE)
       \/ "locations" \in DOMAIN location_filter /\ location_filter.locations = {}
       \/ post.location = NULL \/ post.location = ""
       \/ "locations" \in DOMAIN location_filter
             /\ post.location \in location_filter.locations

\* The keyword rule as stated: the filter is disabled, or the user has no
\* stored keywords, or a keyword is a case-insensitive substring of the title,
\* a space and the content.
KeywordRule(u, post) ==
    \/ ~Get(Get(notification_settings[u], "keywordFilter", EmptyObj), "enabled", FALSE)
    \/ notification_keywords[u] = {}
    \/ \E kw \in notification_keywords[u] :
          Contains(Lower(post.title \o <<" ">> \o post.content), Lower(kw))

\* C30: the users a non-urgent post is recorded for are exactly the users
\* with stored settings that pass the location rule and the keyword rule.
C30_TargetsAreExactlyTheRulePassers ==
    [][(PostCall /\ ~CalledPost.is_urgent) =>
          NewRowUsers = {u \in DOMAIN notification_settings :
                            LocationRule(u, CalledPost) /\ KeywordRule(u, CalledPost)}]_vars

\* The users holding a row of the notification in the next state.
RowHolders(notification_id) ==
    {r.user_id : r \in {x \in user_notifications' : x.notification_id = notification_id}}

\* C27: when create_post_notification completes, whatever subscribe,
\* unsubscribe and update_settings requests ran meanwhile, the users holding
\* a row of the new notification are the target users it resolved, and every
\* user a subscription of whom got a delivery attempt holds such a row.
C27_EveryAttemptHasARow ==
    [][(cpn # NoCall /\ cpn' = NoCall) =>
          /\ RowHolders(cpn.notification_id) = cpn.target_users
          /\ \A a \in attempts' :
                a.notification_id = cpn.notification_id =>
                   a.user_key \in RowHolders(cpn.notification_id)]_vars

\* A call of a transactional operation of the storage.
TxCall ==
    \/ \E batch \in TxBatches, fault \in Faults : AddPostsBulkCall(batch, fault)
    \/ \E u \in Users, p \in SettingsInputs : UpdateSettingsCall(u, p)

\* C31: when a transactional operation exits, whatever its body raised, no
\* transaction is left open, an ingestion has written all of its posts or
\* none, and no operation fails to begin its transaction.
C31_EveryTransactionEnds ==
    [][TxCall =>
          /\ ~in_transaction'
          /\ \A batch \in TxBatches, fault \in Faults :
                AddPostsBulkCall(batch, fault) =>
                   posts' \in {posts, AddPostsBulk(posts, batch).posts}
          /\ ~("raised" \in DOMAIN returned'
                  /\ returned'.raised = "OperationalError")]_vars

\* What _poll_once is left with when the fetch or the parse failed.
IngestFailures == {"HTTPClientError", "ParserRejectedMarkup"}

\* Thread t's tick is on its way out after a failed fetch or parse.
FailedIngest(t) == pc[t] \in {"finally", "except"} /\ raised[t] \in IngestFailures

\* C32: a poll cycle whose fetch or parse fails writes nothing: the step that
\* fails and every later step of the tick leave the posts, notifications and
\* user_notifications tables and the last poll time unchanged, the tick has
\* handled no post, the finally clause clears the in-flight flag and hands
\* the exception to _poll_job.
C32_FailedIngestWritesNothing ==
    /\ [](\A t \in Threads :
             FailedIngest(t) => parsed[t] = <<>> /\ new_posts[t] = <<>>)
    /\ [][\A t \in Threads :
             /\ (pc[t] = "fetch" /\ pc'[t] = "finally" /\ raised'[t] # NULL) =>
                   /\ raised'[t] \in IngestFailures
                   /\ UNCHANGED <<posts, notifications, user_notifications,
                                  _last_poll_time>>
             /\ (FailedIngest(t) /\ pc'[t] # pc[t]) =>
                   /\ UNCHANGED <<posts, notifications, user_notifications,
                                  _last_poll_time>>
                   /\ pc[t] = "finally" => (~_is_polling' /\ pc'[t] = "except")]_vars

\* After a tick that stored a post, a later tick has failed in the parser
\* and is over: the flag is clear and the poll time is the earlier tick's.
C32_Witness ==
    \E t \in Threads :
        /\ pc[t] = "idle"
        /\ raised[t] = "ParserRejectedMarkup"
        /\ ticks = 2
        /\ _last_poll_time = 1
        /\ posts # <<>>
        /\ ~_is_polling

Notified(id) == \E n \in DOMAIN notifications : notifications[n].post_id = id

C35_DeliveriesEndBeforeTheFlagClears ==
    [][\A t \in Threads :
          (pc'[t] # pc[t] /\ attempts' # attempts) =>
             /\ pc[t] \in InFlightPcs /\ _is_polling
             /\ pc'[t] \in InFlightPcs /\ _is_polling']_vars

\* _deliver_notification has returned: no work item is running or waiting.
PoolDrained == pool_state = "completed" => running = {} /\ started = pool_n

\* The keywords of a list, as a set.
AsSet(list) == {list[i] : i \in 1..Len(list)}

\* C36: get_settings returns the defaults for a user without stored settings,
\* and otherwise the stored value of every field the stored object holds, the
\* default of every other field and the user's keyword rows; after update_settings has returned
\* True for a body, get_settings returns the fields of the body, with the
\* body's keywords as a set.
C36_SettingsReadBackWithDefaults ==
    [][\A u \in Users :
          /\ (returned' # returned /\ returned'.op = "get_settings"
                /\ returned'.user_key = u) =>
                LET got == returned'.value
                    blob == notification_settings[u]
                IN IF u \notin DOMAIN notification_settings
                   THEN got = DefaultSettings
                   ELSE ~IsMalformed(blob) =>
                           /\ \A k \in DOMAIN blob : got[k] = blob[k]
                           /\ \A k \in DOMAIN DefaultSettings \ DOMAIN blob :
                                 k # "keywords" => got[k] = DefaultSettings[k]
                           /\ got.keywords = notification_keywords[u]
          /\ \A p \in PrefInputs :
                (/\ UpdateSettingsCall(u, p)
                 /\ "value" \in DOMAIN returned'
                 /\ returned'.value = TRUE) =>
                   LET got == GetSettings(DB, u)'
                   IN /\ got.language = p.language
                      /\ got.updateInterval = p.updateInterval
                      /\ got.desktopNotifications = TRUE
                      /\ \A k \in DOMAIN p.settings : got[k] = p.settings[k]
                      /\ DOMAIN got = DOMAIN p.settings \cup RequiredFields
                      /\ got.keywords = AsSet(p.keywords)]_vars

\* A user who had keyword rows and a stored object with one field has saved
\* a body with every field away from its default and has read it back.
C36_Witness ==
    /\ returned.op = "get_settings"
    /\ returned.user_key = "u2"
    /\ returned.value.language = "hu"
    /\ returned.value.updateInterval = 15
    /\ returned.value.pushNotifications = FALSE
    /\ returned.value.keywords = {KwFir, Cafe}
    /\ Fire \in keywords

\* C37: a subscription whose user_key is NULL gets no delivery attempt from a
\* fan-out, urgent or not, nor from a test notification, and every user a
\* fan-out gives a UserNotification row owns a subscription or has stored
\* settings.
C37_AnonymousSubscriptionsAreSkipped ==
    [][/\ \A a \in attempts' :
             /\ a.user_key # NULL
             /\ a.endpoint \in DOMAIN push_subscriptions
             /\ push_subscriptions[a.endpoint].user_key # NULL
       /\ \A r \in user_notifications' \ user_notifications :
             r.user_id \in SubscriptionOwners \cup DOMAIN notification_settings]_vars

\* An urgent post has been fanned out and delivered to the owned
\* subscription while the other subscription has no owner.
C37_Witness ==
    /\ "e1" \in DOMAIN push_subscriptions
    /\ push_subscriptions["e1"].user_key = NULL
    /\ push_subscriptions["e1"].is_active
    /\ returned.op = "create_post_notification"
    /\ posts[returned.post_id].is_urgent
    /\ \E a \in attempts : a.endpoint = "e2"
    /\ user_notifications # {}

\* C38: the message of a notification is the content of its post when that
\* has at most 75 characters, and otherwise the first 72 characters of the
\* content followed by three dots, 75 characters in all.
C38_MessageIsAtMost75Characters ==
    \A n \in DOMAIN notifications :
        LET message == notifications[n].message
            content == posts[notifications[n].post_id].content
        IN /\ Len(message) <= 75
           /\ Len(content) <= 75 => message = content
           /\ Len(content) > 75 =>
                 /\ message = SubSeq(content, 1, 72) \o <<".", ".", ".">>
                 /\ Len(message) = 75

\* A notification has been created for a post of 76 characters.
C38_Witness ==
    \E n \in DOMAIN notifications :
        /\ Len(posts[notifications[n].post_id].content) = 76
        /\ Len(notifications[n].message) = 75
        /\ notifications[n].message[72] = "2"

\* C39: create_test_notification leaves the notifications and the
\* user_notifications tables as they are, makes a delivery attempt to exactly
\* the active subscriptions whose owner has not opted out of push, and
\* returns the notification, also when there is no such subscription.
C39_TestNotificationAlwaysSucceeds ==
    [][returned'.op = "create_test_notification" =>
          /\ UNCHANGED <<notifications, notification_seq, user_notifications>>
          /\ {a.endpoint : a \in attempts'} =
                {e \in DOMAIN push_subscriptions :
                    /\ push_subscriptions[e].is_active
                    /\ push_subscriptions[e].user_key # NULL
                    /\ ~OptedOut(push_subscriptions[e].user_key)}
          /\ returned'.value.kind = "notification"]_vars

\* The rows of one (user, notification) pair.
RowsOf(rows, user_id, notification_id) ==
    {r \in rows : r.user_id = user_id /\ r.notification_id = notification_id}

\* C40: a (user, notification) pair never has more than one UserNotification
\* row: no two rows of the table share the pair, and a step that adds a pair
\* adds it unread under the id AUTOINCREMENT has just handed out, which no
\* row held before.  A row's read state is monotone: a pair that is read is in
\* the next state either read or without a row.
C40_OneRowPerPairReadMonotone ==
    /\ [](\A r1 \in user_notifications, r2 \in user_notifications :
             (r1.user_id = r2.user_id /\ r1.notification_id = r2.notification_id)
                => r1 = r2)
    /\ [][/\ \A r \in user_notifications' :
               RowsOf(user_notifications, r.user_id, r.notification_id) = {}
                  => /\ ~r.is_read
                     /\ notification_seq' > notification_seq
                     /\ r.notification_id = notification_seq'
                     /\ \A x \in user_notifications :
                           x.notification_id # r.notification_id
          /\ \A r \in user_notifications :
               r.is_read
                  => \A x \in RowsOf(user_notifications', r.user_id, r.notification_id) :
                        x.is_read]_vars

\* A notification created during the run has been read by a user and stays
\* unread for another, after the cleanup has deleted the first notification
\* with its rows.
C40_Witness ==
    /\ 1 \notin DOMAIN notifications
    /\ \E r \in user_notifications : r.notification_id > 2 /\ r.is_read
    /\ \E r \in user_notifications : r.notification_id > 2 /\ ~r.is_read
    /\ \E r \in user_notifications : r.notification_id = 2 /\ r.is_read
====
